---- MODULE Spec2Model ----
(***************************************************************************)
(* A model of the WatchTower AI agent runtime: the Health Agent's          *)
(* monitoring / alert lifecycle (backend/agents/alert_agent.py), the       *)
(* communication hub and the start / stop / loops of an agent             *)
(* (backend/agents/base_agent.py), the workflow executor                   *)
(* (backend/agents/executor.py) and the correlation coefficient of the     *)
(* Analysis Agent (backend/agents/analysis_agent.py).                      *)
(*                                                                         *)
(* Time is in whole seconds.  Metric values are integers; the float        *)
(* comparisons of the Health Agent (mean * 1.1, mean * 0.9) are done       *)
(* exactly by cross-multiplication, the correlation coefficient in rounded *)
(* binary floating point.                                                  *)
(***************************************************************************)
EXTENDS Integers, Sequences, FiniteSets, TLC

(***************************************************************************)
(* Bounds of the model                                                     *)
(***************************************************************************)
\* number of Tick steps (advances of the clock) in a behaviour
MaxTicks == 3
\* number of samples stored in a behaviour of the Health Agent
MaxSamples == 3
\* number of register_agent calls in a behaviour of the hub
MaxRegistrations == 4
\* number of envelopes sent in a behaviour of the hub
MaxSends == 2
\* number of analyses in the history of the Analysis Agent at the start
MaxPriorAnalyses == 3
\* number of process_message calls of the Analysis Agent in a behaviour
MaxAnalysisCalls == 2
\* number of steps of the Analysis Agent's clock, and the days of one step
MaxAnalysisTicks == 1
AnalysisTickDays == 8
\* the longest list of dependencies whose health is queried
MaxDependencies == 3
\* number of workflow executions in flight
MaxRuns == 2
\* number of envelopes the Health Agent's background task sends
MaxEmits == 3
\* number of background cycles of the Analysis Agent
MaxCycles == 3
\* number of initialize() and shutdown() calls in a behaviour
MaxLifecycleCalls == 4
\* number of execute_workflow calls in a behaviour of the executor
MaxRequests == 2
\* the longest time between the two clock reads of one execute_workflow call
MaxElapsed == 1
\* number of metrics stored for a registry service, and for "system"
MaxStores == 150
MaxOtherStores == 2
\* length of the history a trend is calculated over
MaxTrendLen == 4
\* significant bits of the model's floating point numbers (binary64 has 53)
Precision == 4
\* the widest binary shift one rounding step looks at
MaxShift == 20
\* length of the value sequences a correlation is calculated over
MaxCorrLen == 3
\* number of start() and stop() calls in a behaviour of one agent
MaxCalls == 3
\* number of envelopes put into the inbox of that agent
MaxArrivals == 2
\* the largest limit get_message_history is called with
MaxLimit == 3
\* number of envelopes routed by a hub whose history is near its capacity
MaxRingRoutes == 4

(***************************************************************************)
(* Program constants                                                       *)
(***************************************************************************)
alert_cooldown == 300
monitoring_interval == 30
AutoResolveMinutes == 30
ImprovedWindowMinutes == 5
TrendWindowMinutes == 15
max_metrics_per_service == 100
\* the days of analysis history _analyze_historical_patterns looks back
PatternWindowDays == 7
\* the minutes between two correlation analyses of the background cycle
CorrelationIntervalMinutes == 5
max_history == 1000

\* the services of the registry that the model monitors by category
RegistryServices == {"auth_service"}
\* the critical system-wide metrics of _monitor_critical_metrics
SystemMetrics == {"cache_hit_ratio", "pod_count"}
\* the status strings the metric source reports for a service
SourceStatuses == {"healthy", "warning", "critical", "unknown", "error"}
\* the two of them the agent-wide specification draws from
MainStatuses == {"healthy", "critical"}
\* values the metric source reports for a critical metric
MetricValues(m) == IF m = "cache_hit_ratio" THEN {70, 90} ELSE {120}
\* values of the samples a trend is calculated over; on these the double
\* arithmetic of the source and the exact arithmetic of the model agree
TrendValues == {9, 10, 11}

VARIABLES
    now,             \* the wall clock, datetime.now(), in seconds
    health_history,  \* HealthAgent.health_history: service -> list of HealthMetric
    alert_objs,      \* every HealthAlert object ever constructed (index = identity)
    active_alerts,   \* HealthAgent.active_alerts: the alerts stored, in dict order
    emitted,         \* the envelopes the Health Agent handed to send_message
    ticks,           \* number of Tick steps taken
    last,            \* what the last Health Agent step did (inputs and outcome)
    stored,          \* every metric handed to StoreHealthMetric, per service
    hub_agents,      \* AgentCommunicationHub.agents: the registered agent ids
    subscribers,     \* per agent: how often the hub's callback is in agent.subscribers
    message_queue,   \* per agent: BaseAgent.message_queue, the inbox
    message_history, \* AgentCommunicationHub.message_history
    next_message,    \* the id the next envelope gets
    bus_last,        \* what the last hub step did
    history_last,    \* the last get_message_history call: limit and result
    workflows,       \* WatchTowerExecutor.workflows: the kinds in the table
    workflows_executed, \* WatchTowerExecutor.workflows_executed
    wf_last,         \* the last execute_workflow call: request, run and result
    trend_last,      \* the last _calculate_trend call: arguments and result
    corr_last,       \* the last _calculate_correlation_coefficient call
    is_running,      \* BaseAgent.is_running of the agent whose loops are modelled
    tasks,           \* the tasks start() created, in creation order
    agent_log,       \* the process_message calls: invocations and completions
    agent_last,      \* the last step of the agent and the number of start/stop calls
    analysis_history, \* AnalysisAgent.analysis_history
    analysis_now,    \* the wall clock of the Analysis Agent, in seconds
    analysis_last,   \* the last process_message call of the Analysis Agent
    runs,            \* the execute_workflow calls made, in call order
    call_last,       \* the last call of a pure function: arguments and result
    traffic,         \* the envelopes between the Health and the Analysis Agent
    correlation,     \* the Analysis Agent's correlation cycle and cache
    system           \* WatchTowerAgentSystem: flags, tasks and agents

healthVars == <<now, health_history, alert_objs, active_alerts, emitted, ticks, last>>
busVars == <<hub_agents, subscribers, message_queue, message_history,
             next_message, bus_last, history_last>>
execVars == <<workflows, workflows_executed, wf_last>>

agentVars == <<is_running, tasks, agent_log, agent_last>>

analysisVars == <<analysis_history, analysis_now, analysis_last>>

runVars == <<runs>>

\* the variables of the agents, the hub, the executor and their workflows
coreVars == <<healthVars, stored, busVars, execVars, trend_last, corr_last,
              agentVars, analysisVars, runVars>>

\* the other variables
restVars == <<call_last, traffic, correlation, system>>

\* what a call of a pure function, a step of the traffic, of the correlation
\* cycle and of the agent system leave alone
callFrame == <<coreVars, traffic, correlation, system>>
trafficFrame == <<coreVars, call_last, correlation, system>>
correlationFrame == <<coreVars, call_last, traffic, system>>
systemFrame == <<coreVars, call_last, traffic, correlation>>

vars == <<coreVars, restVars>>

(***************************************************************************)
(* Helpers                                                                 *)
(***************************************************************************)
Range(s) == {s[i] : i \in 1..Len(s)}

RECURSIVE SumSeq(_)
SumSeq(s) == IF s = <<>> THEN 0 ELSE s[1] + SumSeq(Tail(s))

RECURSIVE Concat(_)
Concat(ss) == IF ss = <<>> THEN <<>> ELSE ss[1] \o Concat(Tail(ss))

MinOf(S) == CHOOSE x \in S : \A y \in S : x <= y

\* the seconds one Tick step may add to the clock: a monitoring interval or
\* the auto-resolution age
TickSteps == {monitoring_interval, AutoResolveMinutes * 60}



(***************************************************************************)
(* HealthMetric / HealthAlert / AgentMessage                               *)
(***************************************************************************)
HealthMetric(service_name, metric_name, current_value, tw, tc, status, timestamp, trend) ==
    [service_name |-> service_name, metric_name |-> metric_name,
     current_value |-> current_value, threshold_warning |-> tw,
     threshold_critical |-> tc, status |-> status,
     timestamp |-> timestamp, trend |-> trend]

\* a HealthAlert constructed already resolved
HealthAlert_resolved(alert_id, service_name, category, severity, message, details, timestamp) ==
    [alert_id |-> alert_id, service_name |-> service_name, category |-> category,
     severity |-> severity, message |-> message, details |-> details,
     timestamp |-> timestamp, resolved |-> TRUE]

HealthAlert(alert_id, service_name, category, severity, message, details, timestamp) ==
    [alert_id |-> alert_id, service_name |-> service_name, category |-> category,
     severity |-> severity, message |-> message, details |-> details,
     timestamp |-> timestamp, resolved |-> FALSE]

NoMetric == HealthMetric("", "", 0, 0, 0, "", 0, "")

\* create_message: the envelope; content.alert is a reference to the alert
\* object (alert.__dict__), not a copy
create_message(sender, recipient, message_type, content, priority, t) ==
    [sender |-> sender, recipient |-> recipient, message_type |-> message_type,
     content |-> content, priority |-> priority, timestamp |-> t]

(***************************************************************************)
(* Health Agent: pure helpers                                              *)
(***************************************************************************)
Thresholds(metric_name) ==
    CASE metric_name = "cache_hit_ratio" -> [warning |-> 80, critical |-> 60]
      [] metric_name = "database_connections" -> [warning |-> 80, critical |-> 95]
      [] metric_name = "unprocessed_messages" -> [warning |-> 100, critical |-> 500]
      [] metric_name = "pod_count" -> [warning |-> 50, critical |-> 100]

ThresholdNames ==
    {"cache_hit_ratio", "database_connections", "unprocessed_messages", "pod_count"}

\* _evaluate_metric_health with thresholds that belong to the worse status
evaluate_metric_health_inclusive(metric_name, value) ==
    IF metric_name \in ThresholdNames
    THEN IF metric_name = "cache_hit_ratio"
         THEN IF value <= Thresholds(metric_name).critical THEN "critical"
              ELSE IF value <= Thresholds(metric_name).warning THEN "warning"
              ELSE "healthy"
         ELSE IF value >= Thresholds(metric_name).critical THEN "critical"
              ELSE IF value >= Thresholds(metric_name).warning THEN "warning"
              ELSE "healthy"
    ELSE "healthy"

_evaluate_metric_health(metric_name, value) ==
    IF metric_name \in ThresholdNames
    THEN IF metric_name = "cache_hit_ratio"
         THEN IF value < Thresholds(metric_name).critical THEN "critical"
              ELSE IF value < Thresholds(metric_name).warning THEN "warning"
              ELSE "healthy"
         ELSE IF value > Thresholds(metric_name).critical THEN "critical"
              ELSE IF value > Thresholds(metric_name).warning THEN "warning"
              ELSE "healthy"
    ELSE "healthy"

\* None is modelled as -1 (no threshold is negative)
_get_threshold(metric_name, threshold_type) ==
    IF metric_name \in ThresholdNames
    THEN IF threshold_type = "warning" THEN Thresholds(metric_name).warning
         ELSE Thresholds(metric_name).critical
    ELSE -1

SameMetricSince(hist, metric_name, since) ==
    LET Keep(m) == m.metric_name = metric_name /\ m.timestamp > since
    IN SelectSeq(hist, Keep)

\* _calculate_trend that asks for two samples where the source asks for three
calculate_trend_two(service_name, metric_name, current_value, tnow) ==
    IF service_name \notin DOMAIN health_history THEN "stable"
    ELSE LET recent_metrics == SameMetricSince(health_history[service_name],
                                   metric_name, tnow - TrendWindowMinutes * 60)
         IN IF Len(recent_metrics) < 2 THEN "stable"
            ELSE LET values == [i \in 1..Len(recent_metrics) |->
                                    recent_metrics[i].current_value]
                     half == Len(values) \div 2
                     sum_first == SumSeq(SubSeq(values, 1, half))
                     sum_second == SumSeq(SubSeq(values, half + 1, Len(values)))
                     n_first == half
                     n_second == Len(values) - half
                 IN IF 10 * sum_second * n_first > 11 * sum_first * n_second
                    THEN "improving"
                    ELSE IF 10 * sum_second * n_first < 9 * sum_first * n_second
                    THEN "degrading"
                    ELSE "stable"

_calculate_trend(service_name, metric_name, current_value, tnow) ==
    IF service_name \notin DOMAIN health_history THEN "stable"
    ELSE LET recent_metrics == SameMetricSince(health_history[service_name],
                                   metric_name, tnow - TrendWindowMinutes * 60)
         IN IF Len(recent_metrics) < 3 THEN "stable"
            ELSE LET values == [i \in 1..Len(recent_metrics) |->
                                    recent_metrics[i].current_value]
                     half == Len(values) \div 2
                     sum_first == SumSeq(SubSeq(values, 1, half))
                     sum_second == SumSeq(SubSeq(values, half + 1, Len(values)))
                     n_first == half
                     n_second == Len(values) - half
                 IN \* avg_second > avg_first * 1.1, times 10 * n_first * n_second
                    IF 10 * sum_second * n_first > 11 * sum_first * n_second
                    THEN "improving"
                    \* avg_second < avg_first * 0.9
                    ELSE IF 10 * sum_second * n_first < 9 * sum_first * n_second
                    THEN "degrading"
                    ELSE "stable"

\* _store_health_metric evicting the newest entry, pop(), at the cap
store_health_metric_newest(metric) ==
    LET s == metric.service_name
        old == IF s \in DOMAIN health_history THEN health_history[s] ELSE <<>>
        appended == Append(old, metric)
        kept == IF Len(appended) > max_metrics_per_service
                THEN SubSeq(appended, 1, Len(appended) - 1) ELSE appended
    IN [x \in DOMAIN health_history \cup {s} |->
            IF x = s THEN kept ELSE health_history[x]]

\* the history after _store_health_metric(metric)
_store_health_metric(metric) ==
    LET s == metric.service_name
        old == IF s \in DOMAIN health_history THEN health_history[s] ELSE <<>>
        appended == Append(old, metric)
        kept == IF Len(appended) > max_metrics_per_service
                THEN Tail(appended) ELSE appended
    IN [x \in DOMAIN health_history \cup {s} |->
            IF x = s THEN kept ELSE health_history[x]]

_get_service_category(service_name) ==
    IF service_name \in RegistryServices THEN "core_banking" ELSE "unknown"

StatusEmoji(status) ==
    CASE status = "critical" -> "rotating_light"
      [] status = "warning" -> "warning_sign"
      [] status = "healthy" -> "check_mark"
      [] OTHER -> "question_mark"

\* _generate_alert_message naming the metric where it should name the service
generate_alert_message_metric(metric) ==
    <<StatusEmoji(metric.status), metric.metric_name, "service is", metric.status>>

\* the message as the sequence of its parts
_generate_alert_message(metric) ==
    IF metric.metric_name = "service_health"
    THEN <<StatusEmoji(metric.status), metric.service_name, "service is",
           metric.status>>
    ELSE IF metric.metric_name = "cache_hit_ratio"
    THEN <<StatusEmoji(metric.status), "Cache hit ratio dropped to",
           metric.current_value, "threshold", metric.threshold_warning>>
    ELSE IF metric.metric_name = "database_connections"
    THEN <<StatusEmoji(metric.status), "Database connections at",
           metric.current_value, "threshold", metric.threshold_warning>>
    ELSE IF metric.metric_name = "unprocessed_messages"
    THEN <<StatusEmoji(metric.status), "Unprocessed messages",
           metric.current_value, "threshold", metric.threshold_warning>>
    ELSE <<StatusEmoji(metric.status), metric.service_name, metric.metric_name,
           metric.current_value, "trend", metric.trend>>

\* _find_similar_alert with the cooldown added to the clock instead of
\* subtracted from it
find_similar_alert_sign(metric, tnow) ==
    LET cooldown_time == tnow + alert_cooldown
        hits == {i \in 1..Len(active_alerts) :
                    LET alert == alert_objs[active_alerts[i]]
                    IN /\ alert.service_name = metric.service_name
                       /\ alert.details.metric_name = metric.metric_name
                       /\ alert.timestamp > cooldown_time}
    IN IF hits = {} THEN 0 ELSE MinOf(hits)

\* the index in active_alerts of the first similar alert inside the cooldown
\* window, 0 for None
_find_similar_alert(metric, tnow) ==
    LET cooldown_time == tnow - alert_cooldown
        hits == {i \in 1..Len(active_alerts) :
                    LET alert == alert_objs[active_alerts[i]]
                    IN /\ alert.service_name = metric.service_name
                       /\ alert.details.metric_name = metric.metric_name
                       /\ alert.timestamp > cooldown_time}
    IN IF hits = {} THEN 0 ELSE MinOf(hits)

\* _should_resolve_alert without the 30-minute rule
should_resolve_alert_no_age(alert, current_time) ==
    IF alert.service_name \in DOMAIN health_history
    THEN LET recent_metrics == SameMetricSince(health_history[alert.service_name],
                 alert.details.metric_name,
                 current_time - ImprovedWindowMinutes * 60)
         IN IF recent_metrics # <<>>
            THEN recent_metrics[Len(recent_metrics)].status = "healthy"
            ELSE FALSE
    ELSE FALSE

\* _should_resolve_alert reading the oldest recent sample, recent_metrics[0]
should_resolve_alert_first(alert, current_time) ==
    IF current_time - alert.timestamp > AutoResolveMinutes * 60 THEN TRUE
    ELSE IF alert.service_name \in DOMAIN health_history
    THEN LET recent_metrics == SameMetricSince(health_history[alert.service_name],
                 alert.details.metric_name,
                 current_time - ImprovedWindowMinutes * 60)
         IN IF recent_metrics # <<>>
            THEN recent_metrics[1].status = "healthy"
            ELSE FALSE
    ELSE FALSE

_should_resolve_alert(alert, current_time) ==
    IF current_time - alert.timestamp > AutoResolveMinutes * 60 THEN TRUE
    ELSE IF alert.service_name \in DOMAIN health_history
    THEN LET recent_metrics == SameMetricSince(health_history[alert.service_name],
                 alert.details.metric_name,
                 current_time - ImprovedWindowMinutes * 60)
         IN IF recent_metrics # <<>>
            THEN recent_metrics[Len(recent_metrics)].status = "healthy"
            ELSE FALSE
    ELSE FALSE

(***************************************************************************)
(* Health Agent: operations                                                *)
(***************************************************************************)
\* what a step records about itself: the operation, the status string the
\* metric source gave, the sample derived, the clock read by the checks, the
\* alert object created (0: none) and the alert objects resolved
LastStep(op, source, sample, tcheck, created, resolved) ==
    [op |-> op, source |-> source, sample |-> sample, tcheck |-> tcheck,
     created |-> created, resolved |-> resolved]

\* a monitoring cycle samples a pair once, and the next cycle starts a
\* monitoring interval later (alert_agent.py:129): no two samples of one pair
\* carry the same timestamp
NotSampledNow(service_name, metric_name) ==
    service_name \in DOMAIN health_history =>
        \A k \in 1..Len(health_history[service_name]) :
            health_history[service_name][k].metric_name = metric_name
            => health_history[service_name][k].timestamp < now

TotalSamples ==
    LET RECURSIVE Total(_)
        Total(S) == IF S = {} THEN 0
                    ELSE LET s == CHOOSE x \in S : TRUE
                         IN Len(health_history[s]) + Total(S \ {s})
    IN Total(DOMAIN health_history)

\* alert_objs, active_alerts and emitted after _create_alert(metric), the
\* clock reading tnow at the cooldown check
_create_alert(metric, tnow) ==
    LET alert_id == <<metric.service_name, metric.metric_name, metric.timestamp>>
        existing_alert == _find_similar_alert(metric, tnow)
        alert == HealthAlert(alert_id, metric.service_name,
                     _get_service_category(metric.service_name), metric.status,
                     _generate_alert_message(metric),
                     [metric_name |-> metric.metric_name,
                      current_value |-> metric.current_value,
                      threshold_warning |-> metric.threshold_warning,
                      threshold_critical |-> metric.threshold_critical,
                      trend |-> metric.trend],
                     metric.timestamp)
        ref == Len(alert_objs) + 1
        same_key == {i \in 1..Len(active_alerts) :
                        alert_objs[active_alerts[i]].alert_id = alert_id}
    IN IF existing_alert # 0
       THEN UNCHANGED <<alert_objs, active_alerts, emitted>>
       ELSE /\ alert_objs' = Append(alert_objs, alert)
            \* self.active_alerts[alert_id] = alert
            /\ active_alerts' = IF same_key = {} THEN Append(active_alerts, ref)
                                ELSE [active_alerts EXCEPT ![MinOf(same_key)] = ref]
            /\ emitted' = Append(emitted,
                    create_message("health_agent", "analysis_agent", "alert",
                        [alert |-> ref, metric |-> metric],
                        IF metric.status = "critical" THEN 3 ELSE 2, tnow))

\* one service of _monitor_category: the body of the loop over services_data
MonitorService(service_name, status) ==
    \* the clock reads of one step (alert_agent.py:170, 295, 379) are one
    \* instant: the step has no suspension point between them
        LET value == IF status = "healthy" THEN 1 ELSE 0
            tnow == now
            health_metric ==
                HealthMetric(service_name, "service_health", value, 1, 0,
                    IF status \in {"healthy", "warning", "critical"}
                    THEN status ELSE "unknown",
                    now,
                    _calculate_trend(service_name, "service_health", value, tnow))
        IN /\ TotalSamples < MaxSamples
           /\ NotSampledNow(service_name, "service_health")
           /\ health_history' = _store_health_metric(health_metric)
           /\ IF health_metric.status \in {"warning", "critical"}
              THEN _create_alert(health_metric, tnow)
              ELSE UNCHANGED <<alert_objs, active_alerts, emitted>>
           /\ UNCHANGED now
           /\ last' = LastStep("monitor_category", status, health_metric, tnow,
                          IF Len(alert_objs') > Len(alert_objs)
                          THEN Len(alert_objs') ELSE 0, {})
           /\ stored' = [stored EXCEPT
                            ![health_metric.service_name] = Append(@, health_metric)]
           /\ UNCHANGED <<ticks, busVars, execVars, trend_last, corr_last, agentVars, analysisVars, runVars, restVars>>

\* one metric of _monitor_critical_metrics whose query succeeded with a value
MonitorCritical(metric_name, value) ==
        LET status == _evaluate_metric_health(metric_name, value)
            tnow == now
            health_metric ==
                HealthMetric("system", metric_name, value,
                    _get_threshold(metric_name, "warning"),
                    _get_threshold(metric_name, "critical"),
                    status, now,
                    _calculate_trend("system", metric_name, value, tnow))
        IN /\ TotalSamples < MaxSamples
           /\ NotSampledNow("system", metric_name)
           /\ health_history' = _store_health_metric(health_metric)
           /\ IF status \in {"warning", "critical"}
              THEN _create_alert(health_metric, tnow)
              ELSE UNCHANGED <<alert_objs, active_alerts, emitted>>
           /\ UNCHANGED now
           /\ last' = LastStep("monitor_critical", "", health_metric, tnow,
                          IF Len(alert_objs') > Len(alert_objs)
                          THEN Len(alert_objs') ELSE 0, {})
           /\ stored' = [stored EXCEPT
                            ![health_metric.service_name] = Append(@, health_metric)]
           /\ UNCHANGED <<ticks, busVars, execVars, trend_last, corr_last, agentVars, analysisVars, runVars, restVars>>

\* _evaluate_alerts: one evaluation pass over the active alerts
EvaluateAlerts ==
    LET current_time == now
        resolved_alerts == {i \in 1..Len(active_alerts) :
            _should_resolve_alert(alert_objs[active_alerts[i]], current_time)}
        refs == {active_alerts[i] : i \in resolved_alerts}
        Resolution(i) ==
            IF i \in resolved_alerts
            THEN <<create_message("health_agent", "analysis_agent", "status",
                      [alert_resolved |-> active_alerts[i],
                       resolution_time |-> current_time], 1, current_time)>>
            ELSE <<>>
        Stays(r) == r \notin refs
    IN /\ alert_objs' = [r \in 1..Len(alert_objs) |->
                            IF r \in refs
                            THEN [alert_objs[r] EXCEPT !.resolved = TRUE]
                            ELSE alert_objs[r]]
       /\ emitted' = emitted \o
                        Concat([i \in 1..Len(active_alerts) |-> Resolution(i)])
       /\ active_alerts' = SelectSeq(active_alerts, Stays)
       /\ last' = LastStep("evaluate_alerts", "", NoMetric, current_time, 0, refs)
       /\ UNCHANGED <<now, health_history, ticks>>
       /\ UNCHANGED <<stored, busVars, execVars, trend_last, corr_last, agentVars, analysisVars, runVars, restVars>>

\* the clock advances between two operations
Tick ==
    /\ ticks < MaxTicks
    /\ ticks' = ticks + 1
    /\ \E d \in TickSteps : now' = now + d
    /\ last' = LastStep("tick", "", NoMetric, now', 0, {})
    /\ UNCHANGED <<health_history, alert_objs, active_alerts, emitted>>
    /\ UNCHANGED <<stored, busVars, execVars, trend_last, corr_last, agentVars, analysisVars, runVars, restVars>>

\* the seconds between two monitoring passes of a pair that stays unhealthy:
\* one monitoring cycle, or the first cycle after the cooldown has run out
CooldownSteps == {monitoring_interval, alert_cooldown + monitoring_interval}

\* the clock advances from one monitoring cycle to a later one
CycleTick ==
    /\ ticks < MaxTicks
    /\ ticks' = ticks + 1
    /\ \E d \in CooldownSteps : now' = now + d
    /\ last' = LastStep("tick", "", NoMetric, now', 0, {})
    /\ UNCHANGED <<health_history, alert_objs, active_alerts, emitted>>
    /\ UNCHANGED <<stored, busVars, execVars, trend_last, corr_last, agentVars, analysisVars, runVars, restVars>>

(***************************************************************************)
(* Communication hub (AgentCommunicationHub) and BaseAgent messaging        *)
(***************************************************************************)
\* the agent objects of the hub model, one object per agent id
BusAgents == {"health_agent", "analysis_agent", "query_agent"}
\* where an envelope may be addressed
Recipients == BusAgents \cup {"broadcast", "nobody"}

\* hub state while one send runs through the subscriber callbacks
HubState(history, queue) == [history |-> history, queue |-> queue]

\* a router that hands an envelope for an unknown recipient to every
\* registered agent
handle_message_flood(hub, message) ==
    LET appended == Append(hub.history, message)
        history == IF Len(appended) > max_history THEN Tail(appended)
                   ELSE appended
        queue == IF message.recipient \in hub_agents
                 THEN [hub.queue EXCEPT ![message.recipient] = Append(@, message)]
                 ELSE [a \in BusAgents |->
                         IF a \in hub_agents /\ a # message.sender
                         THEN Append(hub.queue[a], message)
                         ELSE hub.queue[a]]
    IN HubState(history, queue)

\* a router that also hands a direct envelope back to its sender
handle_message_echo(hub, message) ==
    LET appended == Append(hub.history, message)
        history == IF Len(appended) > max_history THEN Tail(appended)
                   ELSE appended
        queue == IF message.recipient = "broadcast"
                 THEN [a \in BusAgents |->
                         IF a \in hub_agents /\ a # message.sender
                         THEN Append(hub.queue[a], message)
                         ELSE hub.queue[a]]
                 ELSE IF message.recipient \in hub_agents
                 THEN [a \in BusAgents |->
                         IF a \in {message.recipient, message.sender}
                         THEN Append(hub.queue[a], message)
                         ELSE hub.queue[a]]
                 ELSE hub.queue
    IN HubState(history, queue)

\* a router whose history never evicts
handle_message_unbounded(hub, message) ==
    HubState(Append(hub.history, message), hub.queue)

\* AgentCommunicationHub._handle_message: history first, then routing
_handle_message(hub, message) ==
    LET appended == Append(hub.history, message)
        history == IF Len(appended) > max_history THEN Tail(appended)
                   ELSE appended
        queue == IF message.recipient = "broadcast"
                 THEN [a \in BusAgents |->
                         IF a \in hub_agents /\ a # message.sender
                         THEN Append(hub.queue[a], message)  \* receive_message
                         ELSE hub.queue[a]]
                 ELSE IF message.recipient \in hub_agents
                 THEN [hub.queue EXCEPT ![message.recipient] = Append(@, message)]
                 ELSE hub.queue
    IN HubState(history, queue)

\* BaseAgent.send_message: every entry of self.subscribers is awaited in turn;
\* n entries of the list are the hub's callback
RECURSIVE send_message(_, _, _)
send_message(n, hub, message) ==
    IF n = 0 THEN hub
    ELSE send_message(n - 1, _handle_message(hub, message), message)

BusStep(op, agent, message, delivered) ==
    [op |-> op, agent |-> agent, message |-> message, delivered |-> delivered]

NoMessage == [id |-> 0, sender |-> "", recipient |-> ""]

NoneDelivered == [a \in BusAgents |-> 0]

RECURSIVE SumOver(_, _)
SumOver(f, S) == IF S = {} THEN 0
                 ELSE LET x == CHOOSE y \in S : TRUE
                      IN f[x] + SumOver(f, S \ {x})

\* AgentCommunicationHub.register_agent(agent)
RegisterAgent(agent_id) ==
    /\ SumOver(subscribers, BusAgents) < MaxRegistrations
    /\ hub_agents' = hub_agents \cup {agent_id}
    \* agent.subscribe(self._handle_message): the list is appended to
    /\ subscribers' = [subscribers EXCEPT ![agent_id] = @ + 1]
    /\ bus_last' = BusStep("register", agent_id, NoMessage, NoneDelivered)
    /\ UNCHANGED <<message_queue, message_history, next_message, history_last>>
    /\ UNCHANGED <<healthVars, stored, execVars, trend_last, corr_last, agentVars, analysisVars, runVars, restVars>>

\* AgentCommunicationHub.unregister_agent(agent_id)
UnregisterAgent(agent_id) ==
    /\ hub_agents' = hub_agents \ {agent_id}
    /\ bus_last' = BusStep("unregister", agent_id, NoMessage, NoneDelivered)
    /\ UNCHANGED <<subscribers, message_queue, message_history, next_message, history_last>>
    /\ UNCHANGED <<healthVars, stored, execVars, trend_last, corr_last, agentVars, analysisVars, runVars, restVars>>

\* an agent sends an envelope it created: agent.send_message(message)
SendMessage(agent_id, recipient) ==
    LET message == [id |-> next_message, sender |-> agent_id,
                    recipient |-> recipient]
        hub == send_message(subscribers[agent_id],
                   HubState(message_history, message_queue), message)
    IN /\ next_message <= MaxSends
       /\ next_message' = next_message + 1
       /\ message_history' = hub.history
       /\ message_queue' = hub.queue
       /\ bus_last' = BusStep("send", agent_id, message,
                         [a \in BusAgents |->
                             Len(hub.queue[a]) - Len(message_queue[a])])
       /\ UNCHANGED <<hub_agents, subscribers, history_last>>
       /\ UNCHANGED <<healthVars, stored, execVars, trend_last, corr_last, agentVars, analysisVars, runVars, restVars>>

\* AgentCommunicationHub.send_message(message): one call of _handle_message
\* for an envelope with the given sender; limit is the highest envelope id
HubSendMessage(sender, recipient, limit) ==
    LET message == [id |-> next_message, sender |-> sender,
                    recipient |-> recipient]
        hub == _handle_message(HubState(message_history, message_queue), message)
    IN /\ next_message <= limit
       /\ next_message' = next_message + 1
       /\ message_history' = hub.history
       /\ message_queue' = hub.queue
       /\ bus_last' = BusStep("route", sender, message,
                         [a \in BusAgents |->
                             Len(hub.queue[a]) - Len(message_queue[a])])
       /\ UNCHANGED <<hub_agents, subscribers, history_last>>
       /\ UNCHANGED <<healthVars, stored, execVars, trend_last, corr_last, agentVars, analysisVars, runVars, restVars>>

\* AgentMessage.to_dict, on the fields the model keeps
to_dict(message) ==
    [id |-> message.id, sender |-> message.sender, recipient |-> message.recipient]

\* the Python slice s[start:] of a list
SliceFrom(s, start) ==
    LET first == IF start < 0
                 THEN (IF Len(s) + start < 0 THEN 0 ELSE Len(s) + start)
                 ELSE (IF start > Len(s) THEN Len(s) ELSE start)
    IN SubSeq(s, first + 1, Len(s))

\* AgentCommunicationHub.get_message_history: self.message_history[-limit:]
get_message_history(history, limit) ==
    LET recent == SliceFrom(history, -limit)
    IN [i \in 1..Len(recent) |-> to_dict(recent[i])]

HistoryStep(called, limit, history, result) ==
    [called |-> called, limit |-> limit, history |-> history, result |-> result]

\* one call of get_message_history(limit)
GetMessageHistory(limit) ==
    /\ history_last' = HistoryStep(TRUE, limit, message_history,
                           get_message_history(message_history, limit))
    /\ UNCHANGED <<hub_agents, subscribers, message_queue, message_history,
                   next_message, bus_last>>
    /\ UNCHANGED <<healthVars, stored, execVars, trend_last, corr_last, agentVars, analysisVars, runVars, restVars>>

(***************************************************************************)
(* Workflow executor (WatchTowerExecutor)                                   *)
(***************************************************************************)
\* the values of the WorkflowType enumeration
WorkflowTypes == {"health_check", "alert_analysis", "system_analysis",
                  "correlation_analysis", "proactive_monitoring"}
\* what a request may carry as its kind: a WorkflowType member, or a plain
\* string that is no member (it has no .value)
RequestKinds == WorkflowTypes \cup {"does_not_exist"}
\* request.parameters["alert_data"]: a dict, absent, or something that is no dict
AlertData == {"dict", "absent", "not_a_dict"}
\* the outcome of agent.process_message: an envelope, None, or an exception
Responses == {"response", "none", "raise"}
\* the process_message calls of one run, in call order (no workflow makes
\* more than two)
AgentCalls == {"first", "second"}

\* the compiled graphs: entry point and edges give one linear order of nodes
WorkflowNodes(workflow_key) ==
    CASE workflow_key = "health_check" -> <<"health_check", "process_results">>
      [] workflow_key = "alert_analysis" ->
            <<"receive_alert", "analyze_alert", "correlate_services",
              "generate_response">>
      [] workflow_key = "system_analysis" ->
            <<"gather_metrics", "analyze_patterns", "generate_insights",
              "create_recommendations">>
      [] workflow_key = "correlation_analysis" ->
            <<"identify_services", "analyze_correlations", "evaluate_impact">>
      [] workflow_key = "proactive_monitoring" ->
            <<"monitor_health", "detect_anomalies", "predict_issues",
              "generate_alerts">>

EmptyMap == [k \in {} |-> ""]

Put(map, key, value) ==
    [k \in DOMAIN map \cup {key} |-> IF k = key THEN value ELSE map[k]]

\* AgentState: results, error (None is "None"), current_step; agent_calls
\* counts the process_message calls made so far
AgentState(results, error, current_step, agent_calls) ==
    [results |-> results, error |-> error, current_step |-> current_step,
     agent_calls |-> agent_calls]

Wrote(state, key, value, step) ==
    [state EXCEPT !.results = Put(@, key, value), !.current_step = step]

\* a failing node that leaves an error already in the state alone
failed_keep_first(state, error) ==
    IF state.error = "None" THEN [state EXCEPT !.error = error] ELSE state

\* state["error"] = ...: the error field is overwritten
Failed(state, error) == [state EXCEPT !.error = error]

Called(state) == [state EXCEPT !.agent_calls = @ + 1]

\* the outcome of the next agent.process_message call of the run
process_message(state, inp) ==
    inp.responses[IF state.agent_calls = 0 THEN "first" ELSE "second"]

_health_check_node(state, inp) ==
    LET response == process_message(state, inp)
    IN IF response = "raise" THEN Failed(Called(state), "Health check failed")
       ELSE IF response = "response"
       THEN Wrote(Called(state), "health_data", "response.content",
                  "health_check_completed")
       ELSE Failed(Called(state), "Failed to get health data")

_process_health_results_node(state, inp) ==
    Wrote(state, "health_summary", "summary", "results_processed")

_receive_alert_node(state, inp) ==
    IF inp.alert_data = "not_a_dict"
    THEN Failed(state, "Receive alert failed")
    ELSE Wrote(state, "alert_info",
               IF inp.alert_data = "dict" THEN "alert fields" ELSE "None fields",
               "alert_received")

_analyze_alert_node(state, inp) ==
    LET response == process_message(state, inp)
    IN IF "alert_info" \notin DOMAIN state.results   \* KeyError
       THEN Failed(state, "Analyze alert failed")
       ELSE IF response = "raise"
       THEN Failed(Called(state), "Analyze alert failed")
       ELSE IF response = "response"
       THEN Wrote(Called(state), "analysis_result", "response.content",
                  "alert_analyzed")
       ELSE Failed(Called(state), "Failed to analyze alert")

_correlate_services_node(state, inp) ==
    LET response == process_message(state, inp)
    IN IF "alert_info" \notin DOMAIN state.results   \* KeyError
       THEN Failed(state, "Correlate services failed")
       ELSE IF response = "raise"
       THEN Failed(Called(state), "Correlate services failed")
       ELSE IF response = "response"
       THEN Wrote(Called(state), "correlation_data", "response.content",
                  "services_correlated")
       ELSE [Called(state) EXCEPT
                !.results = Put(@, "correlation_data", "no correlations")]

_generate_response_node(state, inp) ==
    IF "alert_info" \notin DOMAIN state.results   \* KeyError
    THEN Failed(state, "Generate response failed")
    ELSE Wrote(state, "final_response", "response", "response_generated")

_gather_metrics_node(state, inp) ==
    LET response == process_message(state, inp)
    IN IF response = "raise" THEN Failed(Called(state), "Gather metrics failed")
       ELSE IF response = "response"
       THEN Wrote(Called(state), "metrics_data", "response.content",
                  "metrics_gathered")
       ELSE Failed(Called(state), "Failed to gather metrics")

_analyze_patterns_node(state, inp) ==
    LET response == process_message(state, inp)
    IN IF response = "raise" THEN Failed(Called(state), "Analyze patterns failed")
       ELSE IF response = "response"
       THEN Wrote(Called(state), "pattern_analysis", "response.content",
                  "patterns_analyzed")
       ELSE [Called(state) EXCEPT
                !.results = Put(@, "pattern_analysis", "no analyses")]

_generate_insights_node(state, inp) ==
    Wrote(state, "insights", "insights", "insights_generated")

_create_recommendations_node(state, inp) ==
    Wrote(state, "recommendations", "recommendations", "recommendations_created")

_identify_services_node(state, inp) ==
    Wrote(state, "identified_services", "service names", "services_identified")

_analyze_correlations_node(state, inp) ==
    Wrote(state, "correlations", "completed", "correlations_analyzed")

_evaluate_impact_node(state, inp) ==
    Wrote(state, "impact_assessment", "low", "impact_evaluated")

_monitor_health_node(state, inp) ==
    Wrote(state, "health_status", "monitoring_active", "health_monitored")

_detect_anomalies_node(state, inp) ==
    Wrote(state, "anomalies", "none detected", "anomalies_detected")

_predict_issues_node(state, inp) ==
    Wrote(state, "predictions", "none predicted", "issues_predicted")

_generate_alerts_node(state, inp) ==
    Wrote(state, "alerts_generated", "count 0", "alerts_generated")

\* the function a node name was added with (workflow.add_node)
NodeFunction(node, state, inp) ==
    CASE node = "health_check" -> _health_check_node(state, inp)
      [] node = "process_results" -> _process_health_results_node(state, inp)
      [] node = "receive_alert" -> _receive_alert_node(state, inp)
      [] node = "analyze_alert" -> _analyze_alert_node(state, inp)
      [] node = "correlate_services" -> _correlate_services_node(state, inp)
      [] node = "generate_response" -> _generate_response_node(state, inp)
      [] node = "gather_metrics" -> _gather_metrics_node(state, inp)
      [] node = "analyze_patterns" -> _analyze_patterns_node(state, inp)
      [] node = "generate_insights" -> _generate_insights_node(state, inp)
      [] node = "create_recommendations" ->
            _create_recommendations_node(state, inp)
      [] node = "identify_services" -> _identify_services_node(state, inp)
      [] node = "analyze_correlations" -> _analyze_correlations_node(state, inp)
      [] node = "evaluate_impact" -> _evaluate_impact_node(state, inp)
      [] node = "monitor_health" -> _monitor_health_node(state, inp)
      [] node = "detect_anomalies" -> _detect_anomalies_node(state, inp)
      [] node = "predict_issues" -> _predict_issues_node(state, inp)
      [] node = "generate_alerts" -> _generate_alerts_node(state, inp)

\* what one node invocation did: the entries it wrote into the results map
\* and whether it set the error field
NodeRun(node, before, after) ==
    [node |-> node,
     wrote |-> {<<k, after.results[k]>> : k \in
                  {x \in DOMAIN after.results :
                      x \notin DOMAIN before.results
                      \/ before.results[x] # after.results[x]}},
     set_error |-> after.error # before.error,
     error |-> after.error]

Run(state, trace) == [state |-> state, trace |-> trace]

\* a graph run that stops at the first node that leaves an error in the state
RECURSIVE ainvoke_abort(_, _, _)
ainvoke_abort(nodes, run, inp) ==
    IF nodes = <<>> \/ run.state.error # "None" THEN run
    ELSE LET after == NodeFunction(nodes[1], run.state, inp)
         IN ainvoke_abort(Tail(nodes),
                Run(after, Append(run.trace, NodeRun(nodes[1], run.state, after))),
                inp)

\* workflow.ainvoke(initial_state): the nodes run in edge order up to END; the
\* edges are unconditional
RECURSIVE ainvoke(_, _, _)
ainvoke(nodes, run, inp) ==
    IF nodes = <<>> THEN run
    ELSE LET after == NodeFunction(nodes[1], run.state, inp)
         IN ainvoke(Tail(nodes),
                Run(after, Append(run.trace, NodeRun(nodes[1], run.state, after))),
                inp)

WorkflowRequest(request_id, workflow_type, parameters) ==
    [request_id |-> request_id, workflow_type |-> workflow_type,
     parameters |-> parameters]

WorkflowResult(request_id, workflow_type, success, result, execution_time, error_message) ==
    [request_id |-> request_id, workflow_type |-> workflow_type,
     success |-> success, result |-> result,
     execution_time |-> execution_time, error_message |-> error_message]

\* what an execute_workflow call did: the request, whether the kind was in the
\* table, the node invocations, the process_message calls, the value returned,
\* whether an exception left the call, and workflows_executed before the call
ExecStep(op, request, in_table, trace, agent_calls, result, raised, executed_before) ==
    [op |-> op, request |-> request, in_table |-> in_table, trace |-> trace,
     agent_calls |-> agent_calls, result |-> result, raised |-> raised,
     executed_before |-> executed_before]

NoRequest == WorkflowRequest(0, "", [alert_data |-> "absent"])

NoResult == WorkflowResult(0, "", FALSE, EmptyMap, 0, "None")

\* the outcome of one execute_workflow call: what it did and the counter after
Outcome(step, executed) == [step |-> step, executed |-> executed]

\* the except branch of execute_workflow, entered at request.workflow_type.value
\* when the kind is no WorkflowType member
AttributeError(request, elapsed) ==
    Outcome(ExecStep("execute_workflow", request, FALSE, <<>>, 0,
                WorkflowResult(request.request_id, request.workflow_type, FALSE,
                    EmptyMap, elapsed, "object has no attribute 'value'"),
                FALSE, workflows_executed),
            workflows_executed)

\* workflow.ainvoke(initial_state) returns the final state, or the graph
\* engine raises instead of running the nodes
EngineOutcomes == {"runs", "raises"}

\* str(e) of the exception the engine raised
EngineError == "str(e) of the engine"

\* an except branch that lets the engine's exception leave the call
except_engine_reraise(request, elapsed) ==
    Outcome(ExecStep("execute_workflow", request, TRUE, <<>>, 0, NoResult,
                TRUE, workflows_executed),
            workflows_executed)

\* the except branch of execute_workflow, entered from workflow.ainvoke
except_engine(request, elapsed) ==
    Outcome(ExecStep("execute_workflow", request, TRUE, <<>>, 0,
                WorkflowResult(request.request_id, request.workflow_type, FALSE,
                    EmptyMap, elapsed, EngineError),
                FALSE, workflows_executed),
            workflows_executed)

\* the normal path of execute_workflow: the graph runs from the initial state
Executed(request, inp, elapsed) ==
    LET initial_state == AgentState(EmptyMap, "None", "started", 0)
        final == ainvoke(WorkflowNodes(request.workflow_type),
                     Run(initial_state, <<>>), inp)
        final_state == final.state
    IN IF inp.engine = "raises" THEN except_engine(request, elapsed)
       ELSE
       Outcome(ExecStep("execute_workflow", request,
                   request.workflow_type \in workflows,
                   final.trace, final_state.agent_calls,
                   WorkflowResult(request.request_id, request.workflow_type,
                       final_state.error = "None", final_state.results,
                       elapsed, final_state.error),
                   FALSE, workflows_executed),
               workflows_executed + 1)

\* execute_workflow without the table lookup
execute_workflow_no_lookup(request, inp, elapsed) ==
    IF request.workflow_type \notin WorkflowTypes
    THEN AttributeError(request, elapsed)
    ELSE Executed(request, inp, elapsed)

\* execute_workflow(request); elapsed is the time between the two clock reads
\* of the call (start_time and the read that computes execution_time)
execute_workflow(request, inp, elapsed) ==
    IF request.workflow_type \notin WorkflowTypes
    THEN AttributeError(request, elapsed)
    ELSE IF request.workflow_type \notin workflows
    THEN Outcome(ExecStep("execute_workflow", request, FALSE, <<>>, 0,
                     WorkflowResult(request.request_id, request.workflow_type,
                         FALSE, EmptyMap, 0, "Workflow not found"),
                     FALSE, workflows_executed),
                 workflows_executed)
    ELSE Executed(request, inp, elapsed)

\* one call of execute_workflow
ExecuteWorkflow(workflow_type, alert_data, responses, elapsed) ==
    \E engine \in EngineOutcomes :
    LET request == WorkflowRequest(wf_last.request.request_id + 1, workflow_type,
                       [alert_data |-> alert_data])
        inp == [alert_data |-> alert_data, responses |-> responses,
                engine |-> engine]
        outcome == execute_workflow(request, inp, elapsed)
    IN /\ wf_last.request.request_id < MaxRequests
       /\ wf_last' = outcome.step
       /\ workflows_executed' = outcome.executed
       /\ UNCHANGED workflows
       /\ UNCHANGED <<healthVars, stored, busVars, trend_last, corr_last, agentVars, analysisVars, runVars, restVars>>

(***************************************************************************)
(* History store and trend calls                                            *)
(***************************************************************************)
\* the services a history is kept for: the registry services and "system"
HistoryServices == RegistryServices \cup {"system"}

\* how many metrics StoreHealthMetric stores for a service
StoreLimit(service_name) ==
    IF service_name \in RegistryServices THEN MaxStores ELSE MaxOtherStores

\* _store_health_metric(metric) for the next sample of a service; the sample
\* is stamped one monitoring interval after the one before it
StoreHealthMetric(service_name) ==
    LET n == Len(stored[service_name])
        metric == HealthMetric(service_name, "service_health", 1, 1, 0, "healthy",
                      n * monitoring_interval, "stable")
    IN /\ n < StoreLimit(service_name)
       /\ health_history' = _store_health_metric(metric)
       /\ stored' = [stored EXCEPT ![service_name] = Append(@, metric)]
       /\ UNCHANGED <<now, alert_objs, active_alerts, emitted, ticks, last>>
       /\ UNCHANGED <<busVars, execVars, trend_last, corr_last, agentVars, analysisVars, runVars, restVars>>

TrendStep(service_name, metric_name, tnow, trend) ==
    [service_name |-> service_name, metric_name |-> metric_name,
     tnow |-> tnow, trend |-> trend]

\* the services and metrics _calculate_trend is asked about
TrendServices == HistoryServices
TrendMetrics == SystemMetrics

\* one call of _calculate_trend
CalculateTrend(service_name, metric_name) ==
    /\ trend_last' = TrendStep(service_name, metric_name, now,
                         _calculate_trend(service_name, metric_name, 0, now))
    /\ UNCHANGED <<healthVars, stored, busVars, execVars, corr_last, agentVars, analysisVars, runVars, restVars>>

(***************************************************************************)
(* Analysis Agent: the correlation coefficient                             *)
(*                                                                         *)
(* Python floats are binary floating point numbers; every operation gives  *)
(* the representable number nearest to the exact result, ties to the even  *)
(* significand.  The model keeps that arithmetic with Precision            *)
(* significant bits: a float is [m, e] with value m * 2^e and m = 0 or     *)
(* 2^(Precision-1) <= |m| < 2^Precision.                                   *)
(***************************************************************************)
Abs(i) == IF i < 0 THEN -i ELSE i

Float(m, e) == [m |-> m, e |-> e]

FloatZero == Float(0, 0)

ShiftUp(k) == IF k > 0 THEN 2^k ELSE 1

ShiftDown(k) == IF k < 0 THEN 2^(-k) ELSE 1

\* the float nearest to (num / den) * 2^e0, ties to even (den > 0)
round_nearest(num, den, e0) ==
    IF num = 0 THEN FloatZero
    ELSE LET a == Abs(num)
             s == CHOOSE k \in -MaxShift..MaxShift :
                     /\ 2^(Precision - 1) * den * ShiftDown(k) <= a * ShiftUp(k)
                     /\ a * ShiftUp(k) < 2^Precision * den * ShiftDown(k)
             A == a * ShiftUp(s)
             D == den * ShiftDown(s)
             q == A \div D
             r == A % D
             m0 == IF 2 * r > D \/ (2 * r = D /\ q % 2 = 1) THEN q + 1 ELSE q
             sign == IF num < 0 THEN -1 ELSE 1
         IN IF m0 = 2^Precision
            THEN Float(sign * 2^(Precision - 1), e0 - s + 1)
            ELSE Float(sign * m0, e0 - s)

\* float(i)
from_int(i) == round_nearest(i, 1, 0)

\* a + b
float_add(a, b) ==
    LET e == IF a.e < b.e THEN a.e ELSE b.e
    IN round_nearest(a.m * 2^(a.e - e) + b.m * 2^(b.e - e), 1, e)

\* a - b
float_sub(a, b) == float_add(a, Float(-b.m, b.e))

\* a * b
float_mul(a, b) == round_nearest(a.m * b.m, 1, a.e + b.e)

\* a / b for b # 0
float_div(a, b) ==
    round_nearest(IF b.m < 0 THEN -a.m ELSE a.m, Abs(b.m), a.e - b.e)

\* a ** 0.5 for a >= 0: the float nearest to the square root
float_sqrt(a) ==
    IF a.m = 0 THEN FloatZero
    ELSE LET odd == a.e % 2 = 1
             m1 == IF odd THEN 2 * a.m ELSE a.m
             e1 == IF odd THEN a.e - 1 ELSE a.e
             m2 == m1 * 4^Precision
             s == CHOOSE k \in 0..(4^Precision) :
                     k * k <= m2 /\ m2 < (k + 1) * (k + 1)
             sticky == IF s * s = m2 THEN 0 ELSE 1
         IN round_nearest(2 * s + sticky, 2, (e1 \div 2) - Precision)

\* sum(values): the additions from left to right, starting from 0
RECURSIVE float_sum(_)
float_sum(values) ==
    IF values = <<>> THEN FloatZero
    ELSE float_add(float_sum(SubSeq(values, 1, Len(values) - 1)),
                   values[Len(values)])

\* the last n elements, values[-n:]
LastN(values, n) == SubSeq(values, Len(values) - n + 1, Len(values))

\* the variant that clamps the quotient to [-1, 1] is not in the source:
\* _calculate_correlation_coefficient returns numerator / denominator as is
_calculate_correlation_coefficient(values1, values2) ==
    LET n == IF Len(values1) < Len(values2) THEN Len(values1) ELSE Len(values2)
    IN IF n < 2 THEN FloatZero
       ELSE LET x == LastN(values1, n)
                y == LastN(values2, n)
                mean_x == float_div(float_sum(x), from_int(n))
                mean_y == float_div(float_sum(y), from_int(n))
                dx == [i \in 1..n |-> float_sub(x[i], mean_x)]
                dy == [i \in 1..n |-> float_sub(y[i], mean_y)]
                numerator == float_sum([i \in 1..n |-> float_mul(dx[i], dy[i])])
                sum_sq_x == float_sum([i \in 1..n |-> float_mul(dx[i], dx[i])])
                sum_sq_y == float_sum([i \in 1..n |-> float_mul(dy[i], dy[i])])
                denominator == float_sqrt(float_mul(sum_sq_x, sum_sq_y))
            IN IF denominator.m = 0 THEN FloatZero
               ELSE float_div(numerator, denominator)

\* the numbers the value sequences are made of
CorrValues == {1, 2, 3, 7}

\* the value sequences of up to MaxCorrLen numbers
CorrSeqs == UNION {[1..n -> CorrValues] : n \in 0..MaxCorrLen}

CorrStep(values1, values2, called, result, swapped) ==
    [values1 |-> values1, values2 |-> values2, called |-> called,
     result |-> result, swapped |-> swapped]

\* the call _calculate_correlation_coefficient(values1, values2) on the value
\* sequences at hand, and the call with the arguments exchanged
CalculateCorrelation ==
    LET values1 == corr_last.values1
        values2 == corr_last.values2
        x == [i \in 1..Len(values1) |-> from_int(values1[i])]
        y == [i \in 1..Len(values2) |-> from_int(values2[i])]
    IN /\ ~corr_last.called
       /\ corr_last' = CorrStep(values1, values2, TRUE,
                           _calculate_correlation_coefficient(x, y),
                           _calculate_correlation_coefficient(y, x))
       /\ UNCHANGED <<healthVars, stored, busVars, execVars, trend_last, agentVars, analysisVars, runVars, restVars>>

(***************************************************************************)
(* BaseAgent: start / stop and the two loops of one agent                  *)
(*                                                                         *)
(* asyncio runs one coroutine at a time and switches only at an await, so  *)
(* a step of the model is the code between two awaits.  A task is          *)
(* [kind, pc, message, failed]: pc is where the coroutine is suspended,    *)
(* message the envelope process_message is working on (NoMessage when      *)
(* there is none), failed whether the task has caught an exception.        *)
(***************************************************************************)
\* the agent whose loops are modelled, and the agent that writes to it
LoopAgent == "health_agent"
PeerAgent == "query_agent"

Task(kind, pc, message, failed) ==
    [kind |-> kind, pc |-> pc, message |-> message, failed |-> failed]

Agent(running, ts) == [is_running |-> running, tasks |-> ts]

\* what process_message does with an envelope: return None, return a
\* response, or raise
ProcessOutcomes == {"none", "response", "raise"}
\* what background_task and a subscriber callback do: return or raise
CallOutcomes == {"return", "raise"}

\* start() that creates the two tasks whether or not the agent is running
start_again(agent) ==
    Agent(TRUE, agent.tasks \o
        <<Task("_message_processor", "created", NoMessage, FALSE),
          Task("_background_task_wrapper", "created", NoMessage, FALSE)>>)

\* BaseAgent.start: nothing when running; else the flag and the two
\* create_task calls (a created task has not run yet)
start(agent) ==
    IF agent.is_running THEN agent
    ELSE Agent(TRUE, agent.tasks \o
             <<Task("_message_processor", "created", NoMessage, FALSE),
               Task("_background_task_wrapper", "created", NoMessage, FALSE)>>)

\* BaseAgent.stop: the flag only
stop(agent) == Agent(FALSE, agent.tasks)

\* a loop test that never leaves the loop
while_is_running_forever(task, running, body) == [task EXCEPT !.pc = body]

\* while self.is_running: enter the body (up to its first await) or leave
\* the loop
while_is_running(task, running, body) ==
    [task EXCEPT !.pc = IF running THEN body ELSE "done"]

\* an except branch that leaves the loop
except_Exception_exit(task, next_pc) == [task EXCEPT !.pc = "done", !.failed = TRUE]

\* except Exception as e: logger.error(...); the loop goes on
except_Exception(task, next_pc) == [task EXCEPT !.pc = next_pc, !.failed = TRUE]

LogEntry(ev, id) == [ev |-> ev, id |-> id]

AgentStep(op, calls) == [op |-> op, calls |-> calls]

\* no more tasks than two for every start() call
MaxTasks == 2 * MaxCalls

\* await agent.start()
Start ==
    LET agent == start(Agent(is_running, tasks))
    IN /\ agent_last.calls < MaxCalls
       /\ is_running' = agent.is_running
       /\ tasks' = agent.tasks
       /\ agent_last' = AgentStep("start", agent_last.calls + 1)
       /\ UNCHANGED <<agent_log, healthVars, stored, busVars, execVars,
                      trend_last, corr_last, analysisVars, runVars, restVars>>

\* await agent.stop()
Stop ==
    LET agent == stop(Agent(is_running, tasks))
    IN /\ agent_last.calls < MaxCalls
       /\ is_running' = agent.is_running
       /\ tasks' = agent.tasks
       /\ agent_last' = AgentStep("stop", agent_last.calls + 1)
       /\ UNCHANGED <<agent_log, healthVars, stored, busVars, execVars,
                      trend_last, corr_last, analysisVars, runVars, restVars>>

\* await agent.receive_message(message): the envelope is put into the inbox
ReceiveMessage ==
    LET message == [id |-> next_message, sender |-> PeerAgent,
                    recipient |-> LoopAgent]
    IN /\ next_message <= MaxArrivals
       /\ next_message' = next_message + 1
       /\ message_queue' = [message_queue EXCEPT ![LoopAgent] = Append(@, message)]
       /\ agent_last' = AgentStep("receive", agent_last.calls)
       /\ UNCHANGED <<is_running, tasks, agent_log>>
       /\ UNCHANGED <<hub_agents, subscribers, message_history, bus_last, history_last>>
       /\ UNCHANGED <<healthVars, stored, execVars, trend_last, corr_last, analysisVars, runVars, restVars>>

\* what a step of a loop leaves alone
LoopFrame ==
    /\ agent_last' = AgentStep("step", agent_last.calls)
    /\ UNCHANGED is_running
    /\ UNCHANGED <<hub_agents, subscribers, message_history, next_message,
                    bus_last, history_last>>
    /\ UNCHANGED <<healthVars, stored, execVars, trend_last, corr_last, analysisVars, runVars, restVars>>

\* _message_processor runs for the first time: the test of
\* `while self.is_running`, then the await of wait_for(message_queue.get())
MessageLoopEnter(t) ==
    /\ tasks[t].kind = "_message_processor"
    /\ tasks[t].pc = "created"
    /\ tasks' = [tasks EXCEPT ![t] = while_is_running(@, is_running, "wait_for_get")]
    /\ UNCHANGED <<message_queue, agent_log>>
    /\ LoopFrame

\* a get that takes the oldest envelope and loses the one behind it
queue_get_lossy(queue) ==
    [message |-> Head(queue),
     queue |-> IF Len(queue) > 1 THEN Tail(Tail(queue)) ELSE Tail(queue)]

\* asyncio.Queue.get on a queue that is not empty: the oldest envelope, and
\* the queue without it
queue_get(queue) == [message |-> Head(queue), queue |-> Tail(queue)]

\* message_queue.get() returns the oldest envelope and process_message is
\* called with it (and runs up to its first await)
MessageLoopGet(t) ==
    /\ tasks[t].kind = "_message_processor"
    /\ tasks[t].pc = "wait_for_get"
    /\ message_queue[LoopAgent] # <<>>
    /\ LET got == queue_get(message_queue[LoopAgent])
           message == got.message
       IN /\ message_queue' = [message_queue EXCEPT ![LoopAgent] = got.queue]
          /\ tasks' = [tasks EXCEPT ![t] =
                          [@ EXCEPT !.pc = "process_message", !.message = message]]
          /\ agent_log' = Append(agent_log, LogEntry("invoke", message.id))
    /\ LoopFrame

\* the inbox stayed empty for the 1.0 s of wait_for: asyncio.TimeoutError,
\* continue, and the loop test
MessageLoopTimeout(t) ==
    /\ tasks[t].kind = "_message_processor"
    /\ tasks[t].pc = "wait_for_get"
    /\ message_queue[LoopAgent] = <<>>
    /\ tasks' = [tasks EXCEPT ![t] = while_is_running(@, is_running, "wait_for_get")]
    /\ UNCHANGED <<message_queue, agent_log>>
    /\ LoopFrame

\* process_message is over: it returned a response, which send_message is
\* awaited with; or it returned None or raised, and the loop test follows
MessageLoopProcessed(t, outcome) ==
    /\ tasks[t].kind = "_message_processor"
    /\ tasks[t].pc = "process_message"
    /\ LET task == [tasks[t] EXCEPT !.message = NoMessage]
       IN tasks' = [tasks EXCEPT ![t] =
              CASE outcome = "response" -> [task EXCEPT !.pc = "send_message"]
                [] outcome = "none" ->
                     while_is_running(task, is_running, "wait_for_get")
                [] outcome = "raise" ->
                     while_is_running(except_Exception(task, "wait_for_get"),
                         is_running, "wait_for_get")]
    /\ agent_log' = Append(agent_log, LogEntry("complete", tasks[t].message.id))
    /\ UNCHANGED message_queue
    /\ LoopFrame

\* send_message(response) is over: the subscriber returned, or it raised and
\* send_message caught that; the loop test follows
MessageLoopSent(t, outcome) ==
    /\ tasks[t].kind = "_message_processor"
    /\ tasks[t].pc = "send_message"
    /\ tasks' = [tasks EXCEPT ![t] =
           while_is_running([@ EXCEPT !.failed = @ \/ outcome = "raise"],
               is_running, "wait_for_get")]
    /\ UNCHANGED <<message_queue, agent_log>>
    /\ LoopFrame

\* _background_task_wrapper runs for the first time, or its sleep is over:
\* the test of `while self.is_running`, then the await of background_task
BackgroundLoopEnter(t) ==
    /\ tasks[t].kind = "_background_task_wrapper"
    /\ tasks[t].pc \in {"created", "sleep"}
    /\ tasks' = [tasks EXCEPT ![t] = while_is_running(@, is_running, "background_task")]
    /\ UNCHANGED <<message_queue, agent_log>>
    /\ LoopFrame

\* background_task is over: it returned (sleep(1)) or raised (the except
\* branch and sleep(5))
BackgroundLoopCycle(t, outcome) ==
    /\ tasks[t].kind = "_background_task_wrapper"
    /\ tasks[t].pc = "background_task"
    /\ tasks' = [tasks EXCEPT ![t] =
           IF outcome = "raise" THEN except_Exception(@, "sleep")
           ELSE [@ EXCEPT !.pc = "sleep"]]
    /\ UNCHANGED <<message_queue, agent_log>>
    /\ LoopFrame

\* one step of task t
TaskStep(t) ==
    /\ t <= Len(tasks)
    /\ \/ MessageLoopEnter(t)
       \/ MessageLoopGet(t)
       \/ MessageLoopTimeout(t)
       \/ \E o \in ProcessOutcomes : MessageLoopProcessed(t, o)
       \/ \E o \in CallOutcomes : MessageLoopSent(t, o)
       \/ BackgroundLoopEnter(t)
       \/ \E o \in CallOutcomes : BackgroundLoopCycle(t, o)

(***************************************************************************)
(* Analysis Agent: the analysis of an alert                                 *)
(*                                                                         *)
(* A confidence is kept in tenths: 5 is 0.5 and 10 is 1.0.  Findings and    *)
(* recommendations are sets of labels; those of _get_ai_insights, which     *)
(* add nothing to the confidence, are left out.                             *)
(***************************************************************************)
\* the services alerts are analysed for
AnalysisServices == {"auth_service", "banking_mysql"}

\* AnalysisAgent.dependency_map, the entries of the services analysed
dependency_map == [s \in {"auth_service"} |-> [depends_on |-> {"banking_mysql"}]]

\* message.content.get("alert", {}): a dict of an alert, or a value that is
\* none (service_name "" stands for no dict)
AlertDict(is_dict, service_name, category) ==
    [is_dict |-> is_dict, service_name |-> service_name, category |-> category]

\* message.content.get("metric", {})
MetricDict(is_dict, metric_name, current_value) ==
    [is_dict |-> is_dict, metric_name |-> metric_name,
     current_value |-> current_value]

\* the alert payloads the Health Agent sends
HealthAlertDicts ==
    {AlertDict(TRUE, s, _get_service_category(s)) : s \in AnalysisServices}
        \cup {AlertDict(FALSE, "", "")}

\* results["alert_info"] of _receive_alert_node: it has no category
AlertInfos == {AlertDict(TRUE, s, "") : s \in AnalysisServices}

MetricDicts ==
    {MetricDict(TRUE, "service_health", 0), MetricDict(TRUE, "cache_hit_ratio", 50),
     MetricDict(TRUE, "cache_hit_ratio", 90), MetricDict(FALSE, "", 0)}

\* the priority _create_alert gives the envelope of an alert: 3 for a critical
\* sample, 2 for a warning
AlertPriority(metric) ==
    IF metric.metric_name = "service_health" /\ metric.current_value = 0
    THEN 3 ELSE 2

AnalysisResult(analysis_id, trigger_event, findings, confidence, recommendations, affected_services, timestamp, details) ==
    [analysis_id |-> analysis_id, analysis_type |-> "root_cause",
     trigger_event |-> trigger_event, findings |-> findings,
     confidence |-> confidence, recommendations |-> recommendations,
     affected_services |-> affected_services, timestamp |-> timestamp,
     details |-> details]

\* recommendations that appear in more than one of the patterns
_find_common_solutions(history, resolved_patterns) ==
    {rec \in UNION {history[i].recommendations : i \in resolved_patterns} :
        Cardinality({i \in resolved_patterns :
                        rec \in history[i].recommendations}) > 1}

NoPatterns == [found |-> FALSE, findings |-> {}, recommendations |-> {},
               confidence_boost |-> 0]

\* _analyze_historical_patterns over the history, the clock reading tnow; a
\* trigger event names the service of its alert
_analyze_historical_patterns(history, service_name, tnow) ==
    LET similar_patterns ==
            {i \in 1..Len(history) :
                /\ \/ service_name \in history[i].affected_services
                   \/ service_name = history[i].trigger_event
                /\ history[i].timestamp > tnow - PatternWindowDays * 86400}
        recurring == Cardinality(similar_patterns) > 2
        resolved_patterns ==
            {i \in similar_patterns :
                /\ "resolved" \in DOMAIN history[i].details
                /\ history[i].details.resolved}
        common_solutions == _find_common_solutions(history, resolved_patterns)
    IN IF similar_patterns = {} THEN NoPatterns
       ELSE [found |-> TRUE,
             findings |-> IF recurring THEN {"recurring issue"} ELSE {},
             recommendations |->
                (IF recurring THEN {"preventive measures"} ELSE {})
                    \cup common_solutions,
             confidence_boost |->
                (IF recurring THEN 2 ELSE 0)
                    + (IF common_solutions # {} THEN 1 ELSE 0)]

\* a confidence returned without the cap
uncapped(confidence) == confidence

\* min(confidence, 1.0)
capped(confidence) == IF confidence < 10 THEN confidence ELSE 10

\* the dict _perform_root_cause_analysis returns
RootCause(findings, recommendations, confidence) ==
    [findings |-> findings, recommendations |-> recommendations,
     confidence |-> confidence]

\* _perform_root_cause_analysis; unhealthy is what _check_dependency_health
\* finds unhealthy among the services asked about
_perform_root_cause_analysis(alert_data, metric_data, unhealthy, history, tnow) ==
    IF ~alert_data.is_dict \/ ~metric_data.is_dict
    THEN RootCause({}, {}, 0)      \* the except branch
    ELSE
    LET service_name == alert_data.service_name
        unhealthy_deps ==
            IF service_name \in DOMAIN dependency_map
            THEN dependency_map[service_name].depends_on \cap unhealthy
            ELSE {}
        down == metric_data.metric_name = "service_health"
                    /\ metric_data.current_value = 0
        degraded == ~down /\ metric_data.metric_name = "cache_hit_ratio"
                        /\ metric_data.current_value < 60
        historical_analysis ==
            _analyze_historical_patterns(history, service_name, tnow)
        confidence ==
            5 + (IF unhealthy_deps # {} THEN 3 ELSE 0)
              + (IF down THEN 4 ELSE IF degraded THEN 3 ELSE 0)
              + (IF historical_analysis.found
                 THEN historical_analysis.confidence_boost ELSE 0)
    IN RootCause(
           (IF unhealthy_deps # {} THEN {"dependency issues"} ELSE {})
               \cup (IF down THEN {"service is down"}
                     ELSE IF degraded THEN {"cache degraded"} ELSE {})
               \cup historical_analysis.findings,
           (IF unhealthy_deps # {} THEN {"investigate dependencies"} ELSE {})
               \cup (IF down THEN {"check logs and restart"}
                     ELSE IF degraded THEN {"investigate cache"} ELSE {})
               \cup historical_analysis.recommendations,
           capped(confidence))

\* _perform_correlation_analysis_for_alert: affected_services
_perform_correlation_analysis_for_alert(alert_data) ==
    IF ~alert_data.is_dict THEN {}      \* the except branch
    ELSE {alert_data.service_name}
            \cup {s \in DOMAIN dependency_map :
                    alert_data.service_name \in dependency_map[s].depends_on}
            \cup (IF alert_data.category # ""
                  THEN {s \in RegistryServices :
                          _get_service_category(s) = alert_data.category}
                  ELSE {})

\* _generate_analysis_response: the summary names the confidence level, the
\* trigger, the findings, the recommendations, the affected services and the
\* analysis id
_generate_analysis_response(analysis_result) ==
    [confidence_desc |-> IF analysis_result.confidence > 7 THEN "high"
                         ELSE IF analysis_result.confidence > 4 THEN "medium"
                         ELSE "low",
     trigger |-> analysis_result.trigger_event,
     findings |-> analysis_result.findings,
     recommendations |-> analysis_result.recommendations,
     affected_services |-> analysis_result.affected_services,
     analysis_id |-> analysis_result.analysis_id]

\* an envelope given to the Analysis Agent's process_message
AnalysisMessage(sender, message_type, content_is_dict, alert, metric, priority) ==
    [sender |-> sender, recipient |-> "analysis_agent",
     message_type |-> message_type, content_is_dict |-> content_is_dict,
     content |-> [alert |-> alert, metric |-> metric], priority |-> priority]

NoAnalysisMessage ==
    AnalysisMessage("", "", FALSE, AlertDict(FALSE, "", ""),
        MetricDict(FALSE, "", 0), 0)

\* what a process_message call gives: the history after it and the envelope
\* returned (returned FALSE: None)
Analysed(history, returned, response) ==
    [history |-> history, returned |-> returned, response |-> response]

NoInsight ==
    [sender |-> "", recipient |-> "", message_type |-> "",
     content |-> [analysis_result |-> 0,
                  response_message |-> [analysis_id |-> -1]],
     priority |-> 0]

\* an _analyze_alert that stores the result and returns nothing
analyze_alert_silent(message, unhealthy, history, tnow) ==
    LET alert_data == message.content.alert
        analysis_result ==
            AnalysisResult(tnow, alert_data.service_name, {}, 5, {},
                {alert_data.service_name}, tnow, [alert_data |-> alert_data])
    IN Analysed(Append(history, analysis_result), FALSE, NoInsight)

\* _analyze_alert(message): the history after the call and the envelope
\* returned; content.analysis_result is the index of the stored result (the
\* envelope carries analysis_result.__dict__)
_analyze_alert(message, unhealthy, history, tnow) ==
    LET alert_data == message.content.alert
        metric_data == message.content.metric
        root_cause_analysis ==
            _perform_root_cause_analysis(alert_data, metric_data, unhealthy,
                history, tnow)
        correlation_analysis == _perform_correlation_analysis_for_alert(alert_data)
        analysis_result ==
            AnalysisResult(tnow, alert_data.service_name,
                root_cause_analysis.findings, root_cause_analysis.confidence,
                root_cause_analysis.recommendations, correlation_analysis, tnow,
                [alert_data |-> alert_data, metric_data |-> metric_data])
    IN IF ~message.content_is_dict \/ ~alert_data.is_dict
       THEN Analysed(history, FALSE, NoInsight)       \* the except branch
       ELSE Analysed(Append(history, analysis_result), TRUE,
                [sender |-> "analysis_agent", recipient |-> "broadcast",
                 message_type |-> "insight",
                 content |-> [analysis_result |-> Len(history) + 1,
                              response_message |->
                                 _generate_analysis_response(analysis_result)],
                 priority |-> message.priority])

\* AnalysisAgent.process_message
analysis_process_message(message, unhealthy, history, tnow) ==
    IF message.message_type = "alert"
    THEN _analyze_alert(message, unhealthy, history, tnow)
    ELSE Analysed(history, FALSE, NoInsight)

\* what the last process_message call of the Analysis Agent did: the task it
\* ran in, the envelope, the history before it and what it returned
AnalysisStep(op, task, message, before, returned, response, calls) ==
    [op |-> op, task |-> task, message |-> message, before |-> before,
     returned |-> returned, response |-> response, calls |-> calls]

\* a process_message call made by the given task
ProcessMessageCall(task, message, unhealthy) ==
    LET outcome == analysis_process_message(message, unhealthy,
                       analysis_history, analysis_now)
    IN /\ analysis_last.calls < MaxAnalysisCalls
       /\ analysis_history' = outcome.history
       /\ analysis_last' = AnalysisStep("process_message", task, message,
                               analysis_history, outcome.returned,
                               outcome.response, analysis_last.calls + 1)
       /\ UNCHANGED analysis_now
       /\ UNCHANGED <<healthVars, stored, busVars, execVars, trend_last,
                      corr_last, agentVars, runVars, restVars>>

\* the Analysis Agent's _message_processor takes an envelope of the Health
\* Agent from the inbox and calls process_message
AnalysisMessageLoop(message_type, content_is_dict, alert, metric, unhealthy) ==
    ProcessMessageCall("_message_processor",
        AnalysisMessage("health_agent", message_type, content_is_dict, alert,
            metric, AlertPriority(metric)),
        unhealthy)

\* _analyze_alert_node of a workflow execution: the executor's task calls
\* analysis_agent.process_message with an envelope of its own
AnalyzeAlertNode(alert_info, metric, unhealthy) ==
    ProcessMessageCall("execute_workflow",
        AnalysisMessage("executor", "alert", TRUE, alert_info, metric, 1),
        unhealthy)

\* the clock of the Analysis Agent advances
AnalysisTick ==
    /\ analysis_now < MaxAnalysisTicks * AnalysisTickDays * 86400
    /\ analysis_now' = analysis_now + AnalysisTickDays * 86400
    /\ analysis_last' = AnalysisStep("tick", "", NoAnalysisMessage,
                            analysis_history, FALSE, NoInsight,
                            analysis_last.calls)
    /\ UNCHANGED analysis_history
    /\ UNCHANGED <<healthVars, stored, busVars, execVars, trend_last,
                   corr_last, agentVars, runVars, restVars>>

(***************************************************************************)
(* Workflow executions in flight                                            *)
(*                                                                         *)
(* execute_workflow is a coroutine: several calls can be in flight, and the *)
(* event loop switches between them where a node awaits.  An execution is   *)
(* [request, state, node, pc, events, seen, result]: state is the AgentState*)
(* dict the call built, node the index of the node that runs or runs next,  *)
(* pc "ready" (between two nodes), "in_node" (the node awaits) or "done",   *)
(* events the node invocations and returns so far, seen the outcomes of the *)
(* process_message calls the nodes made, result the WorkflowResult.         *)
(***************************************************************************)
\* the workflow kinds of the executions in flight: one whose nodes call an
\* agent, one whose nodes read the request and each other's results, and one
\* whose nodes only write
RunKinds == {"health_check", "alert_analysis", "correlation_analysis"}

\* request.parameters["alert_data"] of an execution: only the alert analysis
\* reads it
RunAlertData(workflow_type) ==
    IF workflow_type = "alert_analysis" THEN {"dict", "not_a_dict"} ELSE {"absent"}

Execution(request, state, node, pc, events, seen, result) ==
    [request |-> request, state |-> state, node |-> node, pc |-> pc,
     events |-> events, seen |-> seen, result |-> result]

\* a graph engine that starts the next node while one is running
may_start_concurrently(execution) == execution.pc # "done"

\* the engine starts a node when the one before it has returned
may_start(execution) == execution.pc = "ready"

\* one state dict kept for all executions
write_state_shared(executions, r, after) ==
    [i \in DOMAIN executions |-> [executions[i] EXCEPT !.state = after]]

\* the node writes into the state dict of its execution
write_state(executions, r, after) ==
    [executions EXCEPT ![r].state = after]

\* execute_workflow up to workflow.ainvoke(initial_state), for a kind of the
\* table
BeginWorkflow(workflow_type, alert_data) ==
    LET request == WorkflowRequest(Len(runs) + 1, workflow_type,
                       [alert_data |-> alert_data])
        initial_state == AgentState(EmptyMap, "None", "started", 0)
    IN /\ Len(runs) < MaxRuns
       /\ workflow_type \in workflows
       /\ runs' = Append(runs, Execution(request, initial_state, 1, "ready",
                             <<>>, <<>>, NoResult))
       /\ UNCHANGED <<healthVars, stored, busVars, execVars, trend_last,
                      corr_last, agentVars, analysisVars, restVars>>

\* the engine invokes the next node of execution r
NodeStart(r) ==
    LET nodes == WorkflowNodes(runs[r].request.workflow_type)
    IN /\ may_start(runs[r])
       /\ runs[r].node <= Len(nodes)
       /\ runs' = [runs EXCEPT
               ![r].pc = "in_node",
               ![r].events = Append(@, <<"start", nodes[runs[r].node]>>)]
       /\ UNCHANGED <<healthVars, stored, busVars, execVars, trend_last,
                      corr_last, agentVars, analysisVars, restVars>>

\* the node of execution r that is running returns; response is the outcome
\* of the process_message call it made, if it made one
NodeReturn(r, response) ==
    LET nodes == WorkflowNodes(runs[r].request.workflow_type)
        node == nodes[runs[r].node]
        inp == [alert_data |-> runs[r].request.parameters.alert_data,
                responses |-> [c \in AgentCalls |-> response],
                engine |-> "runs"]
        after == NodeFunction(node, runs[r].state, inp)
        called == after.agent_calls > runs[r].state.agent_calls
    IN /\ runs[r].pc = "in_node"
       /\ called \/ response = "none"
       /\ runs' = [write_state(runs, r, after) EXCEPT
               ![r].pc = "ready",
               ![r].node = @ + 1,
               ![r].events = Append(@, <<"return", node>>),
               ![r].seen = IF called THEN Append(@, response) ELSE @]
       /\ UNCHANGED <<healthVars, stored, busVars, execVars, trend_last,
                      corr_last, agentVars, analysisVars, restVars>>

\* execute_workflow after workflow.ainvoke returned: the WorkflowResult
FinishWorkflow(r, elapsed) ==
    LET final_state == runs[r].state
    IN /\ runs[r].pc = "ready"
       /\ runs[r].node > Len(WorkflowNodes(runs[r].request.workflow_type))
       /\ runs' = [runs EXCEPT
               ![r].pc = "done",
               ![r].result =
                   WorkflowResult(runs[r].request.request_id,
                       runs[r].request.workflow_type,
                       final_state.error = "None", final_state.results,
                       elapsed, final_state.error)]
       /\ workflows_executed' = workflows_executed + 1
       /\ UNCHANGED <<workflows, wf_last>>
       /\ UNCHANGED <<healthVars, stored, busVars, trend_last, corr_last,
                      agentVars, analysisVars, restVars>>

(***************************************************************************)
(* Pure functions of the agents, applied to drawn arguments                 *)
(***************************************************************************)
\* what the last call of a pure function was: the function, its arguments and
\* what it returned
PureCall(op, args, result) == [op |-> op, args |-> args, result |-> result]

\* the metric names _evaluate_metric_health is asked about: those with
\* thresholds and one without
EvalMetrics == ThresholdNames \cup {"request_rate"}

\* the values it is asked about: every threshold, its two neighbours, and 0
EvalValues ==
    {0} \cup UNION {{Thresholds(m).warning + d, Thresholds(m).critical + d} :
                       m \in ThresholdNames, d \in {-1, 0, 1}}

\* one call of _evaluate_metric_health
EvaluateMetricHealth(metric_name, value) ==
    /\ call_last.op = "none"
    /\ call_last' = PureCall("_evaluate_metric_health",
                        [metric_name |-> metric_name, value |-> value],
                        _evaluate_metric_health(metric_name, value))
    /\ UNCHANGED callFrame

InList(list, x) == \E i \in 1..Len(list) : list[i] = x

\* the dependency map initialize_service_dependencies builds; depends_on is a
\* list
initialize_service_dependencies ==
    [s \in {"transaction_service", "account_service", "auth_service",
            "notification_service", "fraud_detection", "api_gateway"} |->
        CASE s = "transaction_service" ->
                [depends_on |-> <<"banking_mysql", "banking_redis", "fraud_detection">>,
                 impact_level |-> "high"]
          [] s = "account_service" ->
                [depends_on |-> <<"banking_mysql">>, impact_level |-> "high"]
          [] s = "auth_service" ->
                [depends_on |-> <<"banking_mysql">>, impact_level |-> "high"]
          [] s = "notification_service" ->
                [depends_on |-> <<"banking_rabbitmq">>, impact_level |-> "medium"]
          [] s = "fraud_detection" ->
                [depends_on |-> <<"banking_redis", "transaction_service">>,
                 impact_level |-> "high"]
          [] s = "api_gateway" ->
                [depends_on |-> <<"account_service", "transaction_service",
                                  "auth_service">>,
                 impact_level |-> "critical"]]

\* the dependency maps _calculate_impact_level is applied to: the map of
\* initialize_service_dependencies, its restrictions to some of its services,
\* and each of them with banking_mysql made a dependency of every entry
ImpactMaps ==
    {[s \in keys |->
        IF extended /\ ~InList(initialize_service_dependencies[s].depends_on,
                                 "banking_mysql")
        THEN [initialize_service_dependencies[s] EXCEPT
                 !.depends_on = Append(@, "banking_mysql")]
        ELSE initialize_service_dependencies[s]] :
        keys \in SUBSET DOMAIN initialize_service_dependencies,
        extended \in BOOLEAN}

\* the services _calculate_impact_level is asked about
ImpactServices ==
    {"auth_service", "transaction_service", "banking_mysql", "banking_redis",
     "banking_rabbitmq", "unknown_service"}

\* _calculate_impact_level with the thresholds at >= 3 and >= 1
calculate_impact_level_inclusive(map, service_name) ==
    IF service_name \in DOMAIN map THEN map[service_name].impact_level
    ELSE LET dependent_services ==
                 {s \in DOMAIN map : InList(map[s].depends_on, service_name)}
             n == Cardinality(dependent_services)
         IN IF n >= 3 THEN "critical" ELSE IF n >= 1 THEN "high" ELSE "low"

\* _calculate_impact_level(service_name) of an agent whose dependency_map is map
_calculate_impact_level(map, service_name) ==
    IF service_name \in DOMAIN map THEN map[service_name].impact_level
    ELSE LET dependent_services ==
                 {s \in DOMAIN map : InList(map[s].depends_on, service_name)}
             n == Cardinality(dependent_services)
         IN IF n > 3 THEN "critical"
            ELSE IF n > 1 THEN "high"
            ELSE IF n > 0 THEN "medium"
            ELSE "low"

\* one call of _calculate_impact_level
CalculateImpactLevel(map, service_name) ==
    /\ call_last.op = "none"
    /\ call_last' = PureCall("_calculate_impact_level",
                        [dependency_map |-> map, service_name |-> service_name],
                        _calculate_impact_level(map, service_name))
    /\ UNCHANGED callFrame

\* what prometheus_client.query_metric gives for the health query of one
\* dependency: a success with the sample 1, 0 or 2, a success without a
\* sample, another status, or an exception
QueryOutcomes == {"up_1", "up_0", "up_2", "no_sample", "error", "raise"}

\* _extract_metric_value of a successful result: the sample, or None (-1)
_extract_metric_value(outcome) ==
    CASE outcome = "up_1" -> 1
      [] outcome = "up_0" -> 0
      [] outcome = "up_2" -> 2
      [] OTHER -> -1

\* _check_dependency_health(dependencies): the unhealthy dependencies, in
\* list order; outcomes[i] is what the query of dependencies[i] gives
RECURSIVE _check_dependency_health(_, _)
_check_dependency_health(dependencies, outcomes) ==
    IF dependencies = <<>> THEN <<>>
    ELSE LET dep == Head(dependencies)
             outcome == Head(outcomes)
             value == _extract_metric_value(outcome)
             unhealthy ==
                 IF outcome = "raise" THEN FALSE      \* except: log a warning
                 ELSE IF outcome # "error"            \* status == "success"
                 THEN value # -1 /\ value < 1
                 ELSE TRUE
         IN (IF unhealthy THEN <<dep>> ELSE <<>>)
                \o _check_dependency_health(Tail(dependencies), Tail(outcomes))

\* one call of _check_dependency_health for the dependencies of a service,
\* and the finding and the recommendation _perform_root_cause_analysis makes
\* of what it returns (<<>>: none)
CheckDependencyHealth(service_name, outcomes) ==
    LET dependencies == initialize_service_dependencies[service_name].depends_on
        unhealthy_deps == _check_dependency_health(dependencies, outcomes)
    IN /\ call_last.op = "none"
       /\ Len(outcomes) = Len(dependencies)
       /\ call_last' = PureCall("_check_dependency_health",
                           [dependencies |-> dependencies, outcomes |-> outcomes],
                           [unhealthy_deps |-> unhealthy_deps,
                            finding |-> unhealthy_deps,
                            recommendation |-> unhealthy_deps])
       /\ UNCHANGED callFrame

(***************************************************************************)
(* Message traffic between the Health Agent and the Analysis Agent          *)
(*                                                                         *)
(* Both agents are registered with the hub once and running.  One step of   *)
(* an agent is one iteration of its _message_processor loop: the get, the  *)
(* process_message call and the send_message of the response.               *)
(***************************************************************************)
TrafficAgents == {"health_agent", "analysis_agent"}

MessageTypes == {"query", "response", "alert", "insight", "action", "status"}

\* the types of the envelopes the Health Agent's background task sends:
\* the alert of _create_alert and the resolution of _evaluate_alerts
EmittedTypes == {"alert", "status"}

\* an envelope; cause is the id of the envelope it answers, 0 for none
Envelope(id, sender, recipient, message_type, cause) ==
    [id |-> id, sender |-> sender, recipient |-> recipient,
     message_type |-> message_type, cause |-> cause]

\* what process_message returns: the type and recipient of the response, or
\* None
Reply(message_type, recipient) ==
    [message_type |-> message_type, recipient |-> recipient]

NoReply == Reply("none", "")

\* a Health Agent that answers every envelope
health_process_message_all(message, fails) ==
    Reply("response", message.sender)

\* HealthAgent.process_message: a response to a query and to a status
\* envelope, None for every other type
health_process_message(message, fails) ==
    IF message.message_type \in {"query", "status"}
    THEN Reply("response", message.sender)
    ELSE NoReply

\* AnalysisAgent.process_message: the insight broadcast for an alert (None
\* when the analysis raised), a response to a query and to a status
\* envelope, None for every other type
analysis_reply(message, fails) ==
    IF message.message_type = "alert"
    THEN IF fails THEN NoReply ELSE Reply("insight", "broadcast")
    ELSE IF message.message_type \in {"query", "status"}
    THEN Reply("response", message.sender)
    ELSE NoReply

\* the hub's _handle_message on the inboxes: a broadcast goes to every agent
\* but the sender, a direct envelope to its recipient if that is registered
Routed(inbox, message) ==
    [a \in TrafficAgents |->
        IF \/ message.recipient = "broadcast" /\ a # message.sender
           \/ message.recipient = a
        THEN Append(inbox[a], message)
        ELSE inbox[a]]

Traffic(inbox, sent, emits, idle) ==
    [inbox |-> inbox, sent |-> sent, emits |-> emits, idle |-> idle]

\* the Health Agent's background task sends an alert or a resolution to the
\* Analysis Agent
HealthEmits(message_type) ==
    LET message == Envelope(Len(traffic.sent) + 1, "health_agent",
                            "analysis_agent", message_type, 0)
    IN /\ traffic.emits < MaxEmits
       /\ traffic' = Traffic(Routed(traffic.inbox, message),
                             Append(traffic.sent, message),
                             traffic.emits + 1, traffic.idle)
       /\ UNCHANGED trafficFrame

\* one iteration of _message_processor with an envelope in the inbox
MessageIteration(agent, fails) ==
    /\ traffic.inbox[agent] # <<>>
    /\ LET message == Head(traffic.inbox[agent])
           inbox == [traffic.inbox EXCEPT ![agent] = Tail(@)]
           response == IF agent = "health_agent"
                       THEN health_process_message(message, fails)
                       ELSE analysis_reply(message, fails)
           sending == Envelope(Len(traffic.sent) + 1, agent,
                               response.recipient, response.message_type,
                               message.id)
           idle == [traffic.idle EXCEPT ![agent] = FALSE]
       IN traffic' =
              IF response = NoReply
              THEN Traffic(inbox, traffic.sent, traffic.emits, idle)
              ELSE Traffic(Routed(inbox, sending),
                           Append(traffic.sent, sending), traffic.emits, idle)
    /\ UNCHANGED trafficFrame

\* one iteration of _message_processor with an empty inbox: wait_for times
\* out and the loop goes on
IdleIteration(agent) ==
    /\ traffic.inbox[agent] = <<>>
    /\ traffic' = [traffic EXCEPT !.idle[agent] = TRUE]
    /\ UNCHANGED trafficFrame

(***************************************************************************)
(* Analysis Agent: the background correlation analysis and its cache        *)
(*                                                                         *)
(* correlation is [now, last_analysis, cache, samples, cycles, queried]:   *)
(* last_analysis is _last_correlation_analysis (-1 while the attribute is  *)
(* not set), cache is correlation_cache (<<>> for a key that is absent),    *)
(* samples the values the metric queries have returned so far, queried the *)
(* content of the last response to a correlation query.                     *)
(***************************************************************************)
\* key_metrics of _get_system_metrics_for_correlation, in dict order
key_metrics == <<"cache_hit_ratio", "db_connections", "response_time", "error_rate">>

KeyMetricNames == {key_metrics[i] : i \in 1..Len(key_metrics)}

\* what the query of a key metric gives in one cycle
SampleOutcomes == {"up_1", "up_2", "no_sample"}

\* self.correlation_threshold = 0.7, as a float
correlation_threshold == round_nearest(7, 10, 0)

\* a > b for two floats
float_gt(a, b) ==
    LET e == IF a.e < b.e THEN a.e ELSE b.e
    IN a.m * 2^(a.e - e) > b.m * 2^(b.e - e)

\* abs(a)
float_abs(a) == Float(Abs(a.m), a.e)

\* the seconds between two background cycles: the sleep of one cycle, or
\* the interval of the correlation analysis
CycleSeconds == {60, CorrelationIntervalMinutes * 60}

\* _get_system_metrics_for_correlation: a new dict with, for every key
\* metric whose query gave a value, the list of that one value (<<>>: the
\* key is absent)
_get_system_metrics_for_correlation(outcomes) ==
    [name \in KeyMetricNames |->
        LET i == CHOOSE k \in 1..Len(key_metrics) : key_metrics[k] = name
            value == _extract_metric_value(outcomes[i])
        IN IF value # -1 THEN <<from_int(value)>> ELSE <<>>]

\* the pairs (i, j) with i < j of range(len(metric_names)), in loop order
RECURSIVE IndexPairs(_, _, _)
IndexPairs(i, j, n) ==
    IF i >= n THEN <<>>
    ELSE IF j > n THEN IndexPairs(i + 1, i + 2, n)
    ELSE <<(<<i, j>>)>> \o IndexPairs(i, j + 1, n)

\* _calculate_correlations: one entry for every pair of metrics of the dict
\* that both have more than one value
_calculate_correlations(metrics) ==
    LET present(i) == metrics[key_metrics[i]] # <<>>
        metric_names == SelectSeq(key_metrics, LAMBDA name : metrics[name] # <<>>)
        pairs == IndexPairs(1, 2, Len(metric_names))
        enough(p) == /\ Len(metrics[metric_names[p[1]]]) > 1
                     /\ Len(metrics[metric_names[p[2]]]) > 1
        chosen == SelectSeq(pairs, enough)
    IN [k \in 1..Len(chosen) |->
          LET metric1 == metric_names[chosen[k][1]]
              metric2 == metric_names[chosen[k][2]]
              c == _calculate_correlation_coefficient(metrics[metric1],
                                                      metrics[metric2])
          IN [metric1 |-> metric1, metric2 |-> metric2,
              strength |-> float_abs(c)]]

\* the cache after the loop over the correlations: an entry above the
\* threshold replaces the list of its first metric
RECURSIVE StoreStrong(_, _)
StoreStrong(cache, correlations) ==
    IF correlations = <<>> THEN cache
    ELSE LET c == Head(correlations)
             stored_c ==
                 IF float_gt(c.strength, correlation_threshold)
                 THEN [cache EXCEPT ![c.metric1] =
                          <<[metric2 |-> c.metric2, strength |-> c.strength]>>]
                 ELSE cache
         IN StoreStrong(stored_c, Tail(correlations))

Correlation(tnow, last_analysis, cache, samples, cycles, queried) ==
    [now |-> tnow, last_analysis |-> last_analysis, cache |-> cache,
     samples |-> samples, cycles |-> cycles, queried |-> queried]

\* _perform_correlation_analysis: the attribute is set at the first call;
\* nothing more when the last analysis is less than 5 minutes ago; else the
\* metrics are queried, the correlations calculated and the strong ones
\* stored
_perform_correlation_analysis(c, outcomes) ==
    LET current_time == c.now
        last_analysis == IF c.last_analysis = -1 THEN current_time
                         ELSE c.last_analysis
    IN IF current_time - last_analysis < CorrelationIntervalMinutes * 60
       THEN [c EXCEPT !.last_analysis = last_analysis]
       ELSE LET system_metrics == _get_system_metrics_for_correlation(outcomes)
                correlations == _calculate_correlations(system_metrics)
            IN [c EXCEPT !.last_analysis = current_time,
                         !.cache = StoreStrong(c.cache, correlations),
                         !.samples = [name \in KeyMetricNames |->
                                         c.samples[name] \o system_metrics[name]]]

\* one cycle of the background task of the Analysis Agent: the correlation
\* analysis, and the sleep until the next cycle
CorrelationCycle(outcomes) ==
    /\ correlation.cycles < MaxCycles
    /\ \E d \in CycleSeconds :
          correlation' =
              [_perform_correlation_analysis(correlation, outcomes)
                  EXCEPT !.cycles = @ + 1, !.now = @ + d]
    /\ UNCHANGED correlationFrame

\* _handle_analysis_query for a query of type "correlation": the response
\* has correlation_cache.get(service_name, [])
CorrelationQuery(service_name) ==
    /\ correlation' = [correlation EXCEPT !.queried =
           [name |-> service_name, correlations |-> correlation.cache[service_name]]]
    /\ UNCHANGED correlationFrame

(***************************************************************************)
(* AgentIntegration: initialize, shutdown and the proactive monitoring      *)
(*                                                                         *)
(* system is the AgentIntegration object with the executor and the agents  *)
(* behind it.  loops are the _proactive_monitoring_loop tasks ever created, *)
(* background_tasks the positions of those in self.background_tasks.  The  *)
(* caller awaits one initialize() or shutdown() before the next; request   *)
(* handlers and the monitoring loop run at the awaits in between.           *)
(***************************************************************************)
SystemAgents == {"health_agent", "analysis_agent"}

\* a monitoring task: where it is suspended, and whether cancel() was called
MonitoringTask(pc, cancelled) == [pc |-> pc, cancelled |-> cancelled]

Request(op, initialized, result, ran_workflow) ==
    [op |-> op, initialized |-> initialized, result |-> result,
     ran_workflow |-> ran_workflow]

\* executor.start(): nothing when running; else the flag, and start() of
\* every registered agent
executor_start(sys) ==
    IF sys.executor_running THEN sys
    ELSE [sys EXCEPT !.executor_running = TRUE,
                     !.agents_running = [a \in SystemAgents |-> TRUE]]

\* _start_background_monitoring: the flag, and one new task in the list
_start_background_monitoring(sys) ==
    [sys EXCEPT !.monitoring_active = TRUE,
                !.loops = Append(@, MonitoringTask("created", FALSE)),
                !.background_tasks = Append(@, Len(sys.loops) + 1)]

\* an initialize() that does not look at is_initialized
initialize_unguarded(sys) ==
    [_start_background_monitoring(executor_start(sys))
        EXCEPT !.is_initialized = TRUE]

\* AgentIntegration.initialize: nothing when initialized; else the executor
\* is started, the monitoring is started and the flag is set
initialize(sys) ==
    IF sys.is_initialized THEN sys
    ELSE [_start_background_monitoring(executor_start(sys))
             EXCEPT !.is_initialized = TRUE]

\* _stop_background_monitoring up to its await: the flag is cleared and
\* cancel() is called on every task of the list
cancel_background_tasks(sys) ==
    [sys EXCEPT !.monitoring_active = FALSE,
                !.loops = [t \in 1..Len(sys.loops) |->
                              IF \E k \in 1..Len(sys.background_tasks) :
                                    sys.background_tasks[k] = t
                              THEN [sys.loops[t] EXCEPT !.cancelled = TRUE]
                              ELSE sys.loops[t]]]

\* the rest of shutdown(), after the gather has returned: the list is
\* cleared, executor.stop() clears its flag and the flag of every agent, and
\* is_initialized is cleared
finish_shutdown(sys) ==
    [sys EXCEPT !.background_tasks = <<>>,
                !.executor_running = FALSE,
                !.agents_running = [a \in SystemAgents |-> FALSE],
                !.is_initialized = FALSE]

\* await agent_integration.initialize()
Initialize ==
    /\ system.call = "idle"
    /\ system.calls < MaxLifecycleCalls
    /\ system' = [initialize(system) EXCEPT
                     !.calls = @ + 1,
                     !.lifecycle = IF system.is_initialized
                                   THEN "initialize_noop" ELSE "initialize"]
    /\ UNCHANGED systemFrame

\* await agent_integration.shutdown(), up to the await of the gather; on a
\* system that is not initialized the call returns at once
ShutdownBegin ==
    /\ system.call = "idle"
    /\ system.calls < MaxLifecycleCalls
    /\ system' =
          IF ~system.is_initialized
          THEN [system EXCEPT !.calls = @ + 1, !.lifecycle = "shutdown_noop"]
          ELSE [cancel_background_tasks(system) EXCEPT
                   !.calls = @ + 1, !.call = "shutdown_gather",
                   !.lifecycle = "shutdown_gather"]
    /\ UNCHANGED systemFrame

\* the gather returns when every task of the list is done, and shutdown()
\* runs to its end
ShutdownEnd ==
    /\ system.call = "shutdown_gather"
    /\ \A k \in 1..Len(system.background_tasks) :
          system.loops[system.background_tasks[k]].pc = "done"
    /\ system' = [finish_shutdown(system) EXCEPT
                     !.call = "idle", !.lifecycle = "shutdown"]
    /\ UNCHANGED systemFrame

\* one step of a _proactive_monitoring_loop task: a cancelled task ends at
\* its await (CancelledError: break), or before it ever ran; else the loop
\* test, the proactive monitoring workflow, and the sleep of 5 minutes
MonitoringLoopStep(t) ==
    /\ t <= Len(system.loops)
    /\ system.loops[t].pc # "done"
    /\ LET task == system.loops[t]
           pc == IF task.cancelled THEN "done"
                 ELSE IF task.pc = "workflow" THEN "sleep"
                 ELSE IF system.monitoring_active THEN "workflow"
                 ELSE "done"
       IN system' = [system EXCEPT !.loops[t].pc = pc]
    /\ UNCHANGED systemFrame

\* process_chat_query and process_alert: an error value and no workflow when
\* the system is not initialized; else a workflow of the executor is run
GuardedRequest(op, outcome) ==
    /\ system' = [system EXCEPT !.last =
           IF ~system.is_initialized
           THEN Request(op, FALSE, "error", FALSE)
           ELSE Request(op, TRUE, outcome, TRUE)]
    /\ UNCHANGED systemFrame

ProcessChatQuery == \E outcome \in {"success", "error"} :
                        GuardedRequest("process_chat_query", outcome)

ProcessAlert == \E outcome \in {"success", "error"} :
                    GuardedRequest("process_alert", outcome)

(***************************************************************************)
(* Initial states and specifications                                        *)
(***************************************************************************)
\* HealthAgent.__init__ and initialize_health_baselines: an empty history for
\* every registry service
InitHealth ==
    /\ now = 0
    /\ health_history = [s \in RegistryServices |-> <<>>]
    /\ alert_objs = <<>>
    /\ active_alerts = <<>>
    /\ emitted = <<>>
    /\ ticks = 0
    /\ last = LastStep("init", "", NoMetric, 0, 0, {})
    /\ stored = [s \in HistoryServices |-> <<>>]

\* AgentCommunicationHub.__init__ and BaseAgent.__init__
InitBus ==
    /\ hub_agents = {}
    /\ subscribers = [a \in BusAgents |-> 0]
    /\ message_queue = [a \in BusAgents |-> <<>>]
    /\ message_history = <<>>
    /\ next_message = 1
    /\ bus_last = BusStep("init", "", NoMessage, NoneDelivered)
    /\ history_last = HistoryStep(FALSE, 0, <<>>, <<>>)

\* WatchTowerExecutor.__init__ when _initialize_workflows built the table
InitExecutor ==
    /\ workflows = WorkflowTypes
    /\ workflows_executed = 0
    /\ wf_last = ExecStep("init", NoRequest, FALSE, <<>>, 0, NoResult, FALSE, 0)

InitTrend == trend_last = TrendStep("", "", 0, "")

InitCorr == corr_last = CorrStep(<<>>, <<>>, FALSE, FloatZero, FloatZero)

\* BaseAgent.__init__: not running, no task
InitAgent ==
    /\ is_running = FALSE
    /\ tasks = <<>>
    /\ agent_log = <<>>
    /\ agent_last = AgentStep("init", 0)

\* AnalysisAgent.__init__: no analysis made
InitAnalysis ==
    /\ analysis_history = <<>>
    /\ analysis_now = 0
    /\ analysis_last = AnalysisStep("init", "", NoAnalysisMessage, <<>>, FALSE,
                           NoInsight, 0)

\* no execute_workflow call made
InitRuns == runs = <<>>

\* no pure function called
InitCalls == call_last = PureCall("none", [none |-> TRUE], "")

InitTraffic ==
    traffic = Traffic([a \in TrafficAgents |-> <<>>], <<>>, 0,
                      [a \in TrafficAgents |-> FALSE])

InitCorrelation ==
    correlation = Correlation(0, -1, [name \in KeyMetricNames |-> <<>>],
                              [name \in KeyMetricNames |-> <<>>], 0,
                              [name |-> "", correlations |-> <<>>])

InitSystem ==
    system = [is_initialized |-> FALSE, monitoring_active |-> FALSE,
              background_tasks |-> <<>>, executor_running |-> FALSE,
              agents_running |-> [a \in SystemAgents |-> FALSE],
              loops |-> <<>>, call |-> "idle", calls |-> 0,
              lifecycle |-> "none",
              last |-> Request("none", FALSE, "", FALSE)]

InitRest == InitCalls /\ InitTraffic /\ InitCorrelation /\ InitSystem

Init ==
    /\ InitHealth /\ InitBus /\ InitExecutor /\ InitTrend /\ InitCorr
    /\ InitAgent /\ InitAnalysis /\ InitRuns /\ InitRest

\* the Health Agent: monitoring, evaluation passes and the clock
Next ==
    \/ \E s \in RegistryServices, st \in MainStatuses : MonitorService(s, st)
    \/ \E m \in SystemMetrics : \E v \in MetricValues(m) : MonitorCritical(m, v)
    \/ EvaluateAlerts
    \/ Tick

Spec == Init /\ [][Next]_vars

\* the Health Agent over monitoring cycles inside and just past the cooldown
NextCooldown ==
    \/ \E s \in RegistryServices, st \in MainStatuses : MonitorService(s, st)
    \/ \E m \in SystemMetrics : \E v \in MetricValues(m) : MonitorCritical(m, v)
    \/ EvaluateAlerts
    \/ CycleTick

SpecCooldown == Init /\ [][NextCooldown]_vars

\* the category monitoring of one service, over every status string of the
\* metric source
NextCategory ==
    \/ \E s \in RegistryServices, st \in SourceStatuses : MonitorService(s, st)
    \/ EvaluateAlerts
    \/ Tick

SpecCategory == Init /\ [][NextCategory]_vars

\* the hub: any sequence of registrations, unregistrations and sends
NextBus ==
    \/ \E a \in BusAgents : RegisterAgent(a)
    \/ \E a \in BusAgents : UnregisterAgent(a)
    \/ \E a \in BusAgents, r \in Recipients : SendMessage(a, r)

SpecBus == Init /\ [][NextBus]_vars

\* the routing of the hub: query_agent is registered from the start,
\* health_agent and analysis_agent register and unregister, health_agent
\* sends (through its subscribers, or by the hub's send_message) to
\* analysis_agent, to everybody and to an id nobody has
RouteSenders == {"health_agent"}
RouteRegistrants == {"health_agent", "analysis_agent"}
RouteRecipients == {"analysis_agent", "broadcast", "nobody"}

InitRoute ==
    /\ InitHealth /\ InitExecutor /\ InitTrend /\ InitCorr /\ InitAgent /\ InitAnalysis /\ InitRuns /\ InitRest
    /\ hub_agents = {"query_agent"}
    /\ subscribers = [a \in BusAgents |-> IF a = "query_agent" THEN 1 ELSE 0]
    /\ message_queue = [a \in BusAgents |-> <<>>]
    /\ message_history = <<>>
    /\ next_message = 1
    /\ bus_last = BusStep("init", "", NoMessage, NoneDelivered)
    /\ history_last = HistoryStep(FALSE, 0, <<>>, <<>>)

NextRoute ==
    \/ \E a \in RouteRegistrants : RegisterAgent(a)
    \/ \E a \in RouteRegistrants : UnregisterAgent(a)
    \/ \E a \in RouteSenders, r \in RouteRecipients : SendMessage(a, r)
    \/ \E a \in RouteSenders, r \in RouteRecipients :
          HubSendMessage(a, r, MaxSends)
    \/ \E l \in 0..MaxLimit : GetMessageHistory(l)

SpecRoute == InitRoute /\ [][NextRoute]_vars

\* the history at its capacity: a hub that has routed RingStart envelopes
\* (sent by health_agent to an id nobody has), and then routes the envelopes
\* of two agents in any order
RingStart == max_history - 2
RingSenders == {"health_agent", "analysis_agent"}
RingRecipients == {"query_agent", "nobody"}

InitRing ==
    /\ InitHealth /\ InitExecutor /\ InitTrend /\ InitCorr /\ InitAgent /\ InitAnalysis /\ InitRuns /\ InitRest
    /\ hub_agents = BusAgents
    /\ subscribers = [a \in BusAgents |-> 1]
    /\ message_queue = [a \in BusAgents |-> <<>>]
    /\ message_history =
          [i \in 1..RingStart |->
              [id |-> i, sender |-> "health_agent", recipient |-> "nobody"]]
    /\ next_message = RingStart + 1
    /\ bus_last = BusStep("init", "", NoMessage, NoneDelivered)
    /\ history_last = HistoryStep(FALSE, 0, <<>>, <<>>)

NextRing ==
    \E a \in RingSenders, r \in RingRecipients :
        HubSendMessage(a, r, RingStart + MaxRingRoutes)

SpecRing == InitRing /\ [][NextRing]_vars

\* the executor: _initialize_workflows either built the whole table or failed
\* and left it empty
InitExec ==
    /\ InitHealth /\ InitBus /\ InitTrend /\ InitCorr /\ InitAgent /\ InitAnalysis /\ InitRuns /\ InitRest
    /\ workflows \in {WorkflowTypes, {}}
    /\ workflows_executed = 0
    /\ wf_last = ExecStep("init", NoRequest, FALSE, <<>>, 0, NoResult, FALSE, 0)

NextExec ==
    \E k \in RequestKinds, d \in AlertData, r \in [AgentCalls -> Responses],
       e \in 0..MaxElapsed : ExecuteWorkflow(k, d, r, e)

SpecExec == InitExec /\ [][NextExec]_vars

\* the history store on its own: metric after metric for each service
NextHistory == \E s \in HistoryServices : StoreHealthMetric(s)

SpecHistory == Init /\ [][NextHistory]_vars

\* the k-th of n samples of the "system" history of which the first n_old are
\* older than the trend window (the last of them exactly at its edge)
TrendSample(k, n, n_old, metric_name, value) ==
    HealthMetric("system", metric_name, value,
        _get_threshold(metric_name, "warning"),
        _get_threshold(metric_name, "critical"),
        _evaluate_metric_health(metric_name, value),
        IF k <= n_old
        THEN TrendWindowMinutes * 60 - (n_old - k) * monitoring_interval
        ELSE 2 * TrendWindowMinutes * 60 - (n - k + 1) * monitoring_interval,
        "stable")

\* a Health Agent that has stored up to MaxTrendLen samples of the critical
\* metrics, in time order
InitTrendHistory ==
    /\ InitBus /\ InitExecutor /\ InitTrend /\ InitCorr /\ InitAgent /\ InitAnalysis /\ InitRuns /\ InitRest
    /\ now = 2 * TrendWindowMinutes * 60
    /\ \E n \in 0..MaxTrendLen :
        \E n_old \in 0..n, m \in [1..n -> SystemMetrics],
           v \in [1..n -> TrendValues] :
            LET hist == [k \in 1..n |-> TrendSample(k, n, n_old, m[k], v[k])]
            IN /\ health_history =
                    [s \in RegistryServices \cup (IF n = 0 THEN {} ELSE {"system"})
                        |-> IF s = "system" THEN hist ELSE <<>>]
               /\ stored = [s \in HistoryServices |->
                               IF s = "system" THEN hist ELSE <<>>]
    /\ alert_objs = <<>>
    /\ active_alerts = <<>>
    /\ emitted = <<>>
    /\ ticks = 0
    /\ last = LastStep("init", "", NoMetric, 0, 0, {})

NextTrend ==
    \E s \in TrendServices, m \in TrendMetrics : CalculateTrend(s, m)

SpecTrend == InitTrendHistory /\ [][NextTrend]_vars

\* an Analysis Agent about to correlate two value sequences
InitCorrInputs ==
    /\ InitHealth /\ InitBus /\ InitExecutor /\ InitTrend /\ InitAgent /\ InitAnalysis /\ InitRuns /\ InitRest
    /\ \E v1 \in CorrSeqs, v2 \in CorrSeqs :
          corr_last = CorrStep(v1, v2, FALSE, FloatZero, FloatZero)

NextCorr == CalculateCorrelation

SpecCorr == InitCorrInputs /\ [][NextCorr]_vars

\* one agent: start() and stop() calls, arriving envelopes and the steps of
\* the tasks
NextAgent ==
    \/ Start
    \/ Stop
    \/ ReceiveMessage
    \/ \E t \in 1..MaxTasks : TaskStep(t)

SpecAgent == Init /\ [][NextAgent]_vars

\* the event loop runs every task that can go on; process_message,
\* background_task, the subscribers and the timers come to an end
SpecAgentFair ==
    SpecAgent /\ \A t \in 1..MaxTasks : WF_vars(TaskStep(t))

\* the Analysis Agent: alert envelopes from its inbox, the alert analysis
\* node of the executor, and the clock
\* the envelopes that reach the inbox of the Analysis Agent: alerts of the
\* Health Agent, well formed or not, and an envelope of another type
InboxEnvelopes ==
    {<<"alert", TRUE, a, m>> : a \in HealthAlertDicts, m \in MetricDicts}
        \cup {<<"alert", FALSE, AlertDict(FALSE, "", ""), MetricDict(FALSE, "", 0)>>,
              <<"metric_update", TRUE, AlertDict(FALSE, "", ""),
                MetricDict(FALSE, "", 0)>>}

\* what _check_dependency_health can find unhealthy
UnhealthySets == {{}, {"banking_mysql"}}

\* the history after n alerts of a service that is down were analysed
RECURSIVE PriorAnalyses(_)
PriorAnalyses(n) ==
    IF n = 0 THEN <<>>
    ELSE _analyze_alert(
             AnalysisMessage("health_agent", "alert", TRUE,
                 AlertDict(TRUE, "auth_service", _get_service_category("auth_service")),
                 MetricDict(TRUE, "service_health", 0), 3),
             {}, PriorAnalyses(n - 1), 0).history

\* an Analysis Agent that has analysed up to MaxPriorAnalyses alerts
InitAnalysed ==
    /\ InitHealth /\ InitBus /\ InitExecutor /\ InitTrend /\ InitCorr
    /\ InitAgent /\ InitRuns /\ InitRest
    /\ \E n \in 0..MaxPriorAnalyses : analysis_history = PriorAnalyses(n)
    /\ analysis_now = 0
    /\ analysis_last = AnalysisStep("init", "", NoAnalysisMessage, <<>>, FALSE,
                           NoInsight, 0)

NextAnalysis ==
    \/ \E e \in InboxEnvelopes, u \in UnhealthySets :
            AnalysisMessageLoop(e[1], e[2], e[3], e[4], u)
    \/ \E a \in AlertInfos, m \in MetricDicts, u \in UnhealthySets :
            AnalyzeAlertNode(a, m, u)
    \/ AnalysisTick

SpecAnalysis == InitAnalysed /\ [][NextAnalysis]_vars

\* workflow executions in flight
NextRuns ==
    \/ \E k \in RunKinds : \E d \in RunAlertData(k) : BeginWorkflow(k, d)
    \/ \E r \in 1..Len(runs) : NodeStart(r)
    \/ \E r \in 1..Len(runs), response \in Responses : NodeReturn(r, response)
    \/ \E r \in 1..Len(runs) : FinishWorkflow(r, MaxElapsed)

SpecRuns == Init /\ [][NextRuns]_vars

\* calls of the pure functions of the agents
NextCalls ==
    \/ \E m \in EvalMetrics, v \in EvalValues : EvaluateMetricHealth(m, v)
    \/ \E map \in ImpactMaps, s \in ImpactServices : CalculateImpactLevel(map, s)
    \/ \E s \in DOMAIN initialize_service_dependencies :
          \E o \in UNION {[1..n -> QueryOutcomes] : n \in 1..MaxDependencies} :
              CheckDependencyHealth(s, o)

SpecCalls == Init /\ [][NextCalls]_vars

\* the traffic between the two agents; the event loop runs every message
\* loop whose get returned or timed out, and process_message returns
NextTraffic ==
    \/ \E ty \in EmittedTypes : HealthEmits(ty)
    \/ \E a \in TrafficAgents, f \in BOOLEAN : MessageIteration(a, f)
    \/ \E a \in TrafficAgents : IdleIteration(a)

SpecTraffic ==
    /\ Init /\ [][NextTraffic]_vars
    /\ \A a \in TrafficAgents :
          /\ WF_vars(\E f \in BOOLEAN : MessageIteration(a, f))
          /\ WF_vars(IdleIteration(a))

\* what the queries of the four key metrics give in one cycle: all rising,
\* all at rest, the first two falling and rising, one metric without a
\* sample, and no sample at all
CycleOutcomes ==
    {<<"up_1", "up_1", "up_1", "up_1">>,
     <<"up_2", "up_2", "up_2", "up_2">>,
     <<"up_2", "up_1", "up_1", "no_sample">>,
     <<"up_1", "up_2", "no_sample", "up_1">>,
     <<"no_sample", "no_sample", "no_sample", "no_sample">>}

\* the background cycles of the Analysis Agent and the correlation queries;
\* the background loop goes from one cycle to the next
NextCorrelation ==
    \/ \E outcomes \in CycleOutcomes : CorrelationCycle(outcomes)
    \/ \E name \in KeyMetricNames : CorrelationQuery(name)

SpecCorrelation ==
    /\ Init /\ [][NextCorrelation]_vars
    /\ WF_vars(\E outcomes \in CycleOutcomes : CorrelationCycle(outcomes))

\* the agent system: its lifecycle calls, its monitoring loops and the
\* requests of the chat and alert endpoints
NextSystem ==
    \/ Initialize
    \/ ShutdownBegin
    \/ ShutdownEnd
    \/ \E t \in 1..MaxLifecycleCalls : MonitoringLoopStep(t)
    \/ ProcessChatQuery
    \/ ProcessAlert

SpecSystem == Init /\ [][NextSystem]_vars

(***************************************************************************)
(* Properties of the Health Agent                                          *)
(***************************************************************************)
ActiveRefs == Range(active_alerts)

SamePair(a, service_name, metric_name) ==
    a.service_name = service_name /\ a.details.metric_name = metric_name

InCooldown(a, t) == a.timestamp > t - alert_cooldown

IsMonitorStep(l) == l.op \in {"monitor_category", "monitor_critical"}

Unhealthy(status) == status \in {"warning", "critical"}

C1_AtMostOneInCooldown ==
    \A r1, r2 \in ActiveRefs :
        (/\ SamePair(alert_objs[r1], alert_objs[r2].service_name,
                     alert_objs[r2].details.metric_name)
         /\ InCooldown(alert_objs[r1], now)
         /\ InCooldown(alert_objs[r2], now)) => r1 = r2

C1_SuppressedStep ==
    (/\ IsMonitorStep(last')
     /\ Unhealthy(last'.sample.status)
     /\ \E r \in ActiveRefs :
            /\ SamePair(alert_objs[r], last'.sample.service_name,
                        last'.sample.metric_name)
            /\ InCooldown(alert_objs[r], now))
    => /\ active_alerts' = active_alerts
       /\ alert_objs' = alert_objs
       /\ emitted' = emitted

\* C1: in every reachable state the active-alert set holds at most one alert
\* per (service, metric) pair created inside the cooldown window, and a
\* warning/critical sample for a pair that has an active alert created less
\* than cooldown seconds ago stores no alert and emits no envelope.
C1_Dedup == [](C1_AtMostOneInCooldown) /\ [][C1_SuppressedStep]_vars

\* C1 witness: a warning/critical sample was suppressed by an active alert of
\* its pair inside the cooldown window.
C1_Witness ==
    /\ IsMonitorStep(last)
    /\ Unhealthy(last.sample.status)
    /\ last.created = 0
    /\ \E r \in ActiveRefs :
            /\ SamePair(alert_objs[r], last.sample.service_name,
                        last.sample.metric_name)
            /\ InCooldown(alert_objs[r], last.tcheck)
    /\ Len(emitted) = 1

\* C2 (as claimed): any two alerts ever created for one (service, metric) pair
\* are at least cooldown seconds apart in creation time.
C2_MinSpacing ==
    \A i, j \in 1..Len(alert_objs) :
        (i < j /\ SamePair(alert_objs[i], alert_objs[j].service_name,
                           alert_objs[j].details.metric_name))
        => alert_objs[j].timestamp - alert_objs[i].timestamp >= alert_cooldown

\* C2 (amended): when an alert is created, every alert of its pair that is
\* still in the active set was created at least cooldown seconds before the
\* cooldown check of the new one.
C2_SpacingWhileActive ==
    (IsMonitorStep(last) /\ last.created # 0) =>
        \A r \in ActiveRefs \ {last.created} :
            SamePair(alert_objs[r], last.sample.service_name,
                     last.sample.metric_name)
            => alert_objs[r].timestamp + alert_cooldown <= last.tcheck

\* C2 witness: an alert was created while an older alert of the same pair is
\* still active.
C2_Witness ==
    /\ IsMonitorStep(last)
    /\ last.created # 0
    /\ \E r \in ActiveRefs \ {last.created} :
            SamePair(alert_objs[r], last.sample.service_name,
                     last.sample.metric_name)

\* C5: an evaluation pass resolves every active alert older than 30 minutes,
\* whatever the health history holds: the alert is marked resolved and is no
\* longer in the active set after the pass.
C5_AutoResolve ==
    [][last'.op = "evaluate_alerts" =>
        \A i \in 1..Len(active_alerts) :
            now - alert_objs[active_alerts[i]].timestamp > AutoResolveMinutes * 60
            => /\ alert_objs'[active_alerts[i]].resolved
               /\ active_alerts[i] \notin Range(active_alerts')]_vars

\* the samples of a pair taken in the last 5 minutes before t, as indices
RecentIdx(service_name, metric_name, t) ==
    IF service_name \in DOMAIN health_history
    THEN {k \in 1..Len(health_history[service_name]) :
            /\ health_history[service_name][k].metric_name = metric_name
            /\ health_history[service_name][k].timestamp >
                    t - ImprovedWindowMinutes * 60}
    ELSE {}

\* C5 witness: an evaluation pass resolved an alert older than 30 minutes whose
\* latest sample of the last 5 minutes is warning or critical.
C5_Witness ==
    /\ last.op = "evaluate_alerts"
    /\ \E r \in last.resolved :
        LET a == alert_objs[r]
            idx == RecentIdx(a.service_name, a.details.metric_name, last.tcheck)
        IN /\ last.tcheck - a.timestamp > AutoResolveMinutes * 60
           /\ a.resolved
           /\ r \notin ActiveRefs
           /\ idx # {}
           /\ \A k \in idx : Unhealthy(health_history[a.service_name][k].status)

\* C6 (as claimed): an evaluation pass resolves every active alert younger
\* than 30 minutes whose pair has some healthy sample in the last 5 minutes.
C6_AnyHealthyResolves ==
    [][last'.op = "evaluate_alerts" =>
        \A i \in 1..Len(active_alerts) :
            LET a == alert_objs[active_alerts[i]]
            IN (/\ now - a.timestamp <= AutoResolveMinutes * 60
                /\ \E k \in RecentIdx(a.service_name, a.details.metric_name, now) :
                      health_history[a.service_name][k].status = "healthy")
               => /\ alert_objs'[active_alerts[i]].resolved
                  /\ active_alerts[i] \notin Range(active_alerts')]_vars

\* C6 (amended): an evaluation pass resolves every active alert younger than
\* 30 minutes whose pair's most recent sample of the last 5 minutes is healthy.
C6_LatestHealthyResolves ==
    [][last'.op = "evaluate_alerts" =>
        \A i \in 1..Len(active_alerts) :
            LET a == alert_objs[active_alerts[i]]
                idx == RecentIdx(a.service_name, a.details.metric_name, now)
            IN (/\ now - a.timestamp <= AutoResolveMinutes * 60
                /\ \E k \in idx :
                      /\ health_history[a.service_name][k].status = "healthy"
                      /\ \A j \in idx : j <= k)
               => /\ alert_objs'[active_alerts[i]].resolved
                  /\ active_alerts[i] \notin Range(active_alerts')]_vars

\* C6 witness: an evaluation pass resolved an alert younger than 30 minutes
\* (its pair has an unhealthy sample followed by a healthy one).
C6_Witness ==
    /\ last.op = "evaluate_alerts"
    /\ \E r \in last.resolved :
        LET a == alert_objs[r]
            idx == RecentIdx(a.service_name, a.details.metric_name, last.tcheck)
        IN /\ last.tcheck - a.timestamp <= AutoResolveMinutes * 60
           /\ a.resolved
           /\ r \notin ActiveRefs
           /\ \E k \in idx : Unhealthy(health_history[a.service_name][k].status)

\* the message, a sequence of parts, has this part
Contains(message, part) == \E i \in 1..Len(message) : message[i] = part

\* the last monitoring step stored an alert, or an active alert of the pair
\* inside the cooldown window suppressed it
CreatedOrSuppressed ==
    \/ last.created # 0
    \/ \E r \in ActiveRefs :
          /\ SamePair(alert_objs[r], last.sample.service_name,
                      last.sample.metric_name)
          /\ InCooldown(alert_objs[r], last.tcheck)

\* C9 (as claimed): every service_health metric of category monitoring with
\* value 0 has status critical and, unless an alert of the pair is inside the
\* cooldown window, creates an alert whose message has the service name and
\* "critical", whatever status string the source reported.
C9_ZeroIsCritical ==
    (last.op = "monitor_category" /\ last.sample.current_value = 0) =>
        /\ last.sample.status = "critical"
        /\ CreatedOrSuppressed
        /\ last.created # 0 =>
              /\ Contains(alert_objs[last.created].message,
                          last.sample.service_name)
              /\ Contains(alert_objs[last.created].message, "critical")

\* C9 (amended): the value is 1 for "healthy" and 0 for every other status
\* string; the status is the string itself for healthy, warning and critical
\* and unknown for anything else; warning and critical create an alert (unless
\* suppressed) whose message has the service name and that status; healthy
\* and unknown statuses create none.
C9_StatusFollowsSource ==
    last.op = "monitor_category" =>
        /\ last.sample.current_value = IF last.source = "healthy" THEN 1 ELSE 0
        /\ last.sample.status =
              IF last.source \in {"healthy", "warning", "critical"}
              THEN last.source ELSE "unknown"
        /\ last.source \in {"warning", "critical"} =>
              /\ CreatedOrSuppressed
              /\ last.created # 0 =>
                    /\ alert_objs[last.created].severity = last.source
                    /\ Contains(alert_objs[last.created].message,
                                last.sample.service_name)
                    /\ Contains(alert_objs[last.created].message, last.source)
        /\ last.source \notin {"warning", "critical"} => last.created = 0

\* C9 witness: the source reported "critical" and the step created an alert
\* whose message has the service name and "critical".
C9_Witness ==
    /\ last.op = "monitor_category"
    /\ last.source = "critical"
    /\ last.sample.current_value = 0
    /\ last.created # 0
    /\ Contains(alert_objs[last.created].message, last.sample.service_name)
    /\ Contains(alert_objs[last.created].message, "critical")

(***************************************************************************)
(* Properties of the hub                                                    *)
(***************************************************************************)
\* C3: when an agent registered with the hub sends an envelope addressed to
\* "broadcast", every registered agent other than the sender gets it into its
\* inbox exactly once and nobody else gets it, whatever register/unregister
\* calls came before.
C3_BroadcastOnce ==
    (/\ bus_last.op = "send"
     /\ bus_last.message.recipient = "broadcast"
     /\ bus_last.agent \in hub_agents)
    => \A a \in BusAgents :
          bus_last.delivered[a] =
              IF a \in hub_agents /\ a # bus_last.agent THEN 1 ELSE 0

(***************************************************************************)
(* Properties of the executor                                               *)
(***************************************************************************)
NodesInvoked == [i \in 1..Len(wf_last.trace) |-> wf_last.trace[i].node]

ErrorSetAt == {k \in 1..Len(wf_last.trace) : wf_last.trace[k].set_error}

\* C4: if node k of a workflow sets the error field, every node of the
\* workflow is still invoked, in order; whatever the nodes after k wrote into
\* the results map is in the returned result; and success is false.
C4_NonAbort ==
    (wf_last.op = "execute_workflow" /\ wf_last.in_table) =>
        \A k \in ErrorSetAt :
            /\ NodesInvoked = WorkflowNodes(wf_last.request.workflow_type)
            /\ \A j \in (k + 1)..Len(wf_last.trace) :
                  \A e \in wf_last.trace[j].wrote :
                      /\ e[1] \in DOMAIN wf_last.result.result
                      /\ wf_last.result.result[e[1]] = e[2]
            /\ wf_last.result.success = FALSE

\* C4 witness: a node that is not the last one set the error, and a later node
\* wrote an entry that the failed result returns.
C4_Witness ==
    /\ wf_last.op = "execute_workflow"
    /\ \E k \in ErrorSetAt : \E j \in (k + 1)..Len(wf_last.trace) :
          \E e \in wf_last.trace[j].wrote :
              /\ e[1] \in DOMAIN wf_last.result.result
              /\ wf_last.result.success = FALSE

\* what C8 states of a call whose kind is not in the table, the execution time
\* aside
UnknownKindFails ==
    /\ wf_last.result.success = FALSE
    /\ wf_last.result.result = EmptyMap
    /\ wf_last.result.error_message \notin {"None", ""}
    /\ wf_last.trace = <<>>
    /\ wf_last.agent_calls = 0
    /\ ~wf_last.raised
    /\ workflows_executed = wf_last.executed_before

UnknownKindCall ==
    /\ wf_last.op = "execute_workflow"
    /\ wf_last.request.workflow_type \notin workflows

\* C8 (as claimed): a call with a kind that is not in the workflow table
\* returns success = false, execution_time = 0, an empty result and a
\* non-empty error message, invokes no node, calls no agent, raises nothing
\* and leaves workflows_executed unchanged.
C8_UnknownKindZeroTime ==
    UnknownKindCall => (UnknownKindFails /\ wf_last.result.execution_time = 0)

\* C8 (amended): as claimed, but execution_time is 0 only when the kind is a
\* WorkflowType member missing from the table; a kind that is no WorkflowType
\* member returns through the except branch with the time elapsed in the call.
C8_UnknownKind ==
    UnknownKindCall =>
        /\ UnknownKindFails
        /\ IF wf_last.request.workflow_type \in WorkflowTypes
           THEN wf_last.result.execution_time = 0
           ELSE wf_last.result.execution_time \in 0..MaxElapsed

\* C8 witness: after an earlier call, a WorkflowType kind missed the (empty)
\* table and the call returned the zero-duration failure.
C8_Witness ==
    /\ UnknownKindCall
    /\ wf_last.request.workflow_type \in WorkflowTypes
    /\ wf_last.request.request_id > 1
    /\ wf_last.result.execution_time = 0
    /\ wf_last.result.success = FALSE

(***************************************************************************)
(* Properties of the history store and the trend                            *)
(***************************************************************************)
HistoryOf(service_name) ==
    IF service_name \in DOMAIN health_history
    THEN health_history[service_name] ELSE <<>>

LastOf(s, n) == SubSeq(s, Len(s) - n + 1, Len(s))

C7_Capped ==
    \A s \in HistoryServices :
        /\ Len(HistoryOf(s)) <= max_metrics_per_service
        /\ HistoryOf(s) =
              LastOf(stored[s], IF Len(stored[s]) < max_metrics_per_service
                                THEN Len(stored[s]) ELSE max_metrics_per_service)

C7_OthersUnchanged ==
    \A s \in HistoryServices :
        stored'[s] = stored[s] => HistoryOf(s)' = HistoryOf(s)

\* C7: after any sequence of stores every service's history has at most 100
\* entries and is the last min(n, 100) of the n metrics stored for it, in
\* insertion order; a store leaves the histories of the other services as
\* they are.
C7_HistoryCap == [](C7_Capped) /\ [][C7_OthersUnchanged]_vars

\* C7 witness: 150 metrics were stored for one service, its history is the 100
\* newest, and another service has a history of its own.
C7_Witness ==
    /\ Len(stored["auth_service"]) = 150
    /\ Len(HistoryOf("auth_service")) = 100
    /\ HistoryOf("auth_service")[1] = stored["auth_service"][51]
    /\ HistoryOf("auth_service")[100] = stored["auth_service"][150]
    /\ Len(HistoryOf("system")) > 0

\* the same-metric samples of the trend window at the last trend call, as
\* indices into the service's history
TrendIdx ==
    {k \in 1..Len(HistoryOf(trend_last.service_name)) :
        /\ HistoryOf(trend_last.service_name)[k].metric_name
              = trend_last.metric_name
        /\ HistoryOf(trend_last.service_name)[k].timestamp
              > trend_last.tnow - TrendWindowMinutes * 60}

\* the first floor(n/2) of them, and the rest
FirstHalf ==
    {k \in TrendIdx :
        Cardinality({j \in TrendIdx : j <= k}) <= Cardinality(TrendIdx) \div 2}

SecondHalf == TrendIdx \ FirstHalf

ValueAt ==
    [k \in 1..Len(HistoryOf(trend_last.service_name)) |->
        HistoryOf(trend_last.service_name)[k].current_value]

\* mean(SecondHalf) > 1.1 * mean(FirstHalf), and < 0.9 * mean(FirstHalf)
MoreThanTenPercentAbove ==
    10 * SumOver(ValueAt, SecondHalf) * Cardinality(FirstHalf)
        > 11 * SumOver(ValueAt, FirstHalf) * Cardinality(SecondHalf)

MoreThanTenPercentBelow ==
    10 * SumOver(ValueAt, SecondHalf) * Cardinality(FirstHalf)
        < 9 * SumOver(ValueAt, FirstHalf) * Cardinality(SecondHalf)

InUnitRange(f) ==
    IF f.e >= 0 THEN Abs(f.m) * 2^(f.e) <= 1 ELSE Abs(f.m) <= 2^(-f.e)

\* every element of the sequence has the same value
ZeroVariance(values) == \A i, j \in 1..Len(values) : values[i] = values[j]

\* C11: for value sequences of equal length the correlation coefficient lies
\* in [-1, 1], is the same with the arguments exchanged, and is exactly 0
\* when either sequence has zero variance or fewer than 2 elements
C11_CorrelationLaw ==
    corr_last.called /\ Len(corr_last.values1) = Len(corr_last.values2) =>
        /\ InUnitRange(corr_last.result)
        /\ corr_last.result = corr_last.swapped
        /\ (\/ Len(corr_last.values1) < 2
            \/ ZeroVariance(corr_last.values1)
            \/ ZeroVariance(corr_last.values2)) => corr_last.result = FloatZero

(***************************************************************************)
(* Properties of BaseAgent: start, stop and the loops                      *)
(***************************************************************************)
\* the step is a call of start()
IsStartCall ==
    agent_last'.op = "start" /\ agent_last'.calls = agent_last.calls + 1

\* the two tasks of one start(), neither of which has run
LaunchedTasks ==
    <<Task("_message_processor", "created", NoMessage, FALSE),
      Task("_background_task_wrapper", "created", NoMessage, FALSE)>>

StartLaw ==
    IsStartCall =>
        IF is_running
        THEN UNCHANGED <<is_running, tasks, agent_log, healthVars, stored,
                         busVars, execVars, trend_last, corr_last, analysisVars, runVars, restVars>>
        ELSE /\ is_running'
             /\ tasks' = tasks \o LaunchedTasks
             /\ UNCHANGED <<agent_log, message_queue>>

\* C12: start() on a running agent changes no state and launches no task;
\* on a stopped agent it sets the running flag and launches exactly one
\* message-processing loop and one background-task loop, neither of which
\* has made a step when start() returns
C12_StartIdempotent == [][StartLaw]_vars

\* start() was called on an agent whose loops of the first start() are
\* under way, and launched nothing
C12_Witness ==
    /\ agent_last.op = "start"
    /\ is_running
    /\ Len(tasks) = 2
    /\ tasks[1].pc = "wait_for_get"
    /\ tasks[2].pc = "background_task"

\* task t leaves its loop in this step
Exits(t) == tasks[t].pc # "done" /\ tasks'[t].pc = "done"

AllLoopsExited == \A t \in 1..Len(tasks) : tasks[t].pc = "done"

\* a loop is left only by its own test of the flag: the call that was in
\* flight has come to its end, and nothing is taken from the inbox
ExitAtBoundary ==
    \A t \in 1..Len(tasks) :
        Exits(t) =>
            /\ tasks'[t].message = NoMessage
            /\ UNCHANGED message_queue
            /\ IF tasks[t].pc = "process_message"
               THEN agent_log' = Append(agent_log,
                                     LogEntry("complete", tasks[t].message.id))
               ELSE UNCHANGED agent_log

\* a loop that is over does nothing more
ExitedStaysExited ==
    \A t \in 1..Len(tasks) : tasks[t].pc = "done" => tasks'[t] = tasks[t]

\* C13: after stop(), unless start() is called again, both loops of the
\* agent eventually exit; a loop exits only at its iteration boundary with
\* no process_message or background_task call in flight, and once it has
\* seen the cleared flag it dequeues no message and starts no cycle
C13_CooperativeStop ==
    /\ [][ExitAtBoundary /\ ExitedStaysExited]_vars
    /\ (~is_running ~> (is_running \/ AllLoopsExited))

\* the agent was started and stopped, a message was processed on the way,
\* and both loops are over
C13_Witness ==
    /\ ~is_running
    /\ Len(tasks) = 2
    /\ AllLoopsExited
    /\ agent_log # <<>>

\* C14: no exception of process_message, of routing a response or of
\* background_task ends a loop: a loop ends only by finding the running
\* flag cleared (after stop()), and a task that caught an exception goes on
\* with its loop
SurvivesExceptions ==
    \A t \in 1..Len(tasks) :
        /\ Exits(t) => ~is_running /\ agent_last.calls > 0
        /\ (is_running /\ tasks'[t].failed /\ ~tasks[t].failed)
              => tasks'[t].pc \in {"wait_for_get", "sleep"}

C14_LoopsSurviveExceptions == [][SurvivesExceptions]_vars

\* while the agent runs, the message loop is processing another message and
\* the background loop is in another cycle, each after a caught exception
C14_Witness ==
    /\ is_running
    /\ \E t \in 1..Len(tasks) :
          tasks[t].failed /\ tasks[t].pc = "process_message"
    /\ \E t \in 1..Len(tasks) :
          tasks[t].failed /\ tasks[t].pc = "background_task"

\* C15: the envelopes of the inbox are processed in arrival order, one at a
\* time: process_message of an envelope is invoked only after
\* process_message of every earlier envelope has completed
C15_ArrivalOrder ==
    \A i, j \in 1..Len(agent_log) :
        (i < j /\ agent_log[i].ev = "invoke" /\ agent_log[j].ev = "invoke") =>
            /\ agent_log[i].id < agent_log[j].id
            /\ \E k \in (i + 1)..(j - 1) :
                  agent_log[k].ev = "complete" /\ agent_log[k].id = agent_log[i].id

(***************************************************************************)
(* Properties of the hub's routing and history                             *)
(***************************************************************************)
\* how many times the last step ran the hub's route operation
Routes ==
    CASE bus_last.op = "route" -> 1
      [] bus_last.op = "send" -> subscribers[bus_last.agent]
      [] OTHER -> 0

NothingDelivered == \A a \in BusAgents : bus_last.delivered[a] = 0

\* C16: routing an envelope whose recipient is neither "broadcast" nor a
\* registered agent id puts it into no inbox (the sender's included: nothing
\* is sent back), and the send completes
C16_UnknownRecipientDropped ==
    (/\ Routes >= 1
     /\ bus_last.message.recipient \notin hub_agents \cup {"broadcast"})
    => /\ NothingDelivered
       /\ next_message = bus_last.message.id + 1

\* a registered agent sent an envelope to an id nobody has, while two other
\* agents were registered
C16_Witness ==
    /\ bus_last.op = "send"
    /\ Routes >= 1
    /\ bus_last.message.recipient = "nobody"
    /\ {"analysis_agent", "query_agent"} \subseteq hub_agents
    /\ NothingDelivered

\* C17: an envelope addressed to an agent id is put into the inbox of that
\* agent once by every route operation when the id is registered, and into
\* no other inbox; when the id is not registered (never was, or was
\* unregistered) it is put into no inbox
C17_DirectDelivery ==
    (Routes >= 1 /\ bus_last.message.recipient \in BusAgents)
    => \A a \in BusAgents :
          bus_last.delivered[a] =
              IF a = bus_last.message.recipient /\ a \in hub_agents
              THEN Routes ELSE 0

\* the first envelope for analysis_agent was routed once and is in its inbox
\* (and in no other); after unregister_agent the second one is not delivered
C17_Witness ==
    /\ Routes >= 1
    /\ bus_last.message.id = 2
    /\ bus_last.message.recipient = "analysis_agent"
    /\ "analysis_agent" \notin hub_agents
    /\ Len(message_history) = 2
    /\ message_history[1].recipient = "analysis_agent"
    /\ Len(message_queue["analysis_agent"]) = 1
    /\ message_queue["analysis_agent"][1].id = 1
    /\ message_queue["query_agent"] = <<>>
    /\ message_queue["health_agent"] = <<>>

\* C18: the history never exceeds max_history entries and is the last
\* min(n, max_history) of the n envelopes routed so far, in routing order
\* (envelope ids are given in routing order), none lost and none twice
C18_HistoryRing ==
    LET n == next_message - 1
        k == IF n < max_history THEN n ELSE max_history
    IN /\ Len(message_history) <= max_history
       /\ Len(message_history) = k
       /\ \A i \in 1..k : message_history[i].id = n - k + i

\* more than max_history envelopes were routed, by two agents, and the
\* oldest ones were evicted
C18_Witness ==
    /\ next_message - 1 > max_history + 1
    /\ Len(message_history) = max_history
    /\ message_history[1].id = 3
    /\ message_history[max_history].sender # message_history[max_history - 1].sender

\* C19: an envelope that was dropped (put into no inbox, because its
\* recipient is unknown or because a broadcast reached no agent) is not in
\* the history
C19_OnlyDelivered ==
    (Routes >= 1 /\ NothingDelivered)
    => \A i \in 1..Len(message_history) : message_history[i] # bus_last.message

\* the most recent n entries of a history, as get_message_history gives them
MostRecent(history, n) ==
    [i \in 1..n |-> to_dict(history[Len(history) - n + i])]

\* C20: get_message_history(limit) returns the most recent
\* min(limit, len(history)) envelopes in routing order for every limit >= 0;
\* for limit = 0 it returns none
C20_RecentHistory ==
    history_last.called =>
        LET len == Len(history_last.history)
            n == IF history_last.limit < len THEN history_last.limit ELSE len
        IN history_last.result = MostRecent(history_last.history, n)

(***************************************************************************)
(* Properties of the alert lifecycle                                       *)
(***************************************************************************)
\* the latest sample of the alert's pair in the last 5 minutes is healthy
LatestRecentHealthy(a, t) ==
    LET idx == RecentIdx(a.service_name, a.details.metric_name, t)
    IN \E k \in idx :
          /\ health_history[a.service_name][k].status = "healthy"
          /\ \A j \in idx : j <= k

\* C25: an evaluation pass resolves an active alert younger than 30 minutes
\* if and only if the most recent sample of its service and metric among
\* those of the last 5 minutes is healthy; otherwise the alert stays in the
\* active set and is not changed
C25_ResolvedIffLatestHealthy ==
    [][last'.op = "evaluate_alerts" =>
        \A i \in 1..Len(active_alerts) :
            LET r == active_alerts[i]
                a == alert_objs[r]
            IN now - a.timestamp <= AutoResolveMinutes * 60 =>
                 IF LatestRecentHealthy(a, now)
                 THEN /\ alert_objs'[r].resolved
                      /\ r \notin Range(active_alerts')
                 ELSE /\ alert_objs'[r] = a
                      /\ r \in Range(active_alerts')]_vars

\* one evaluation pass resolved a young alert whose latest sample is healthy
\* and kept another young alert whose latest sample is not
C25_Witness ==
    /\ last.op = "evaluate_alerts"
    /\ \E r \in last.resolved :
          /\ last.tcheck - alert_objs[r].timestamp <= AutoResolveMinutes * 60
          /\ LatestRecentHealthy(alert_objs[r], last.tcheck)
          /\ r \notin ActiveRefs
    /\ \E r \in ActiveRefs :
          /\ ~alert_objs[r].resolved
          /\ last.tcheck - alert_objs[r].timestamp <= AutoResolveMinutes * 60
          /\ RecentIdx(alert_objs[r].service_name,
                       alert_objs[r].details.metric_name, last.tcheck) # {}
          /\ ~LatestRecentHealthy(alert_objs[r], last.tcheck)

(***************************************************************************)
(* Properties of the tasks of an agent                                     *)
(***************************************************************************)
\* the tasks of a kind whose coroutine has not returned
LiveLoops(kind) ==
    {t \in 1..Len(tasks) : tasks[t].kind = kind /\ tasks[t].pc # "done"}

\* C27: whatever start() and stop() calls were made, the agent has at most
\* one live message-processing loop and at most one live background-task loop
C27_OneLoopOfEachKind ==
    /\ Cardinality(LiveLoops("_message_processor")) <= 1
    /\ Cardinality(LiveLoops("_background_task_wrapper")) <= 1

(***************************************************************************)
(* Properties of the envelopes of the Health Agent                         *)
(***************************************************************************)
\* the alert payload of an emitted alert envelope as a reader of the
\* envelope finds it: content["alert"] is the alert object's own __dict__
AlertPayload(envelope) == alert_objs[envelope.content.alert]

\* C21: the payload of an envelope that was sent does not change: the alert
\* payload of every emitted alert envelope keeps resolved = false, also
\* after the Health Agent has resolved the alert
C21_EnvelopeImmutable ==
    \A i \in 1..Len(emitted) :
        emitted[i].message_type = "alert" => ~AlertPayload(emitted[i]).resolved

\* the status envelopes that a step emitted for the alert r
ResolutionsEmitted(r) ==
    {k \in Len(emitted) + 1..Len(emitted') :
        /\ emitted'[k].message_type = "status"
        /\ emitted'[k].content.alert_resolved = r}

\* one step of the life of the alert objects
AlertLifecycleStep ==
    /\ \A r \in Len(alert_objs) + 1..Len(alert_objs') : ~alert_objs'[r].resolved
    /\ \A r \in 1..Len(alert_objs) :
          /\ alert_objs[r].resolved =>
                alert_objs'[r].resolved /\ r \notin Range(active_alerts')
          /\ ~alert_objs[r].resolved /\ alert_objs'[r].resolved =>
                /\ last'.op = "evaluate_alerts"
                /\ r \in Range(active_alerts)
                /\ r \notin Range(active_alerts')
                /\ Cardinality(ResolutionsEmitted(r)) = 1

\* C26: every alert is created unresolved, becomes resolved only in an
\* evaluation pass, which removes it from the active set and emits exactly one
\* status envelope for it; between two steps of the agent the active set holds
\* no resolved alert, and a resolved alert is never active again
C26_AlertLifecycle ==
    /\ [](\A i \in 1..Len(active_alerts) : ~alert_objs[active_alerts[i]].resolved)
    /\ [][AlertLifecycleStep]_vars

\* an evaluation pass resolved one alert and kept another, after an earlier
\* resolved alert of the same service
C26_Witness ==
    /\ last.op = "evaluate_alerts"
    /\ last.resolved # {}
    /\ active_alerts # <<>>
    /\ \E r \in 1..Len(alert_objs) : alert_objs[r].resolved /\ r \notin last.resolved

\* final_state.get("error") of the last call: the error field as the last
\* node invoked left it
FinalError ==
    IF wf_last.trace = <<>> THEN "None"
    ELSE wf_last.trace[Len(wf_last.trace)].error

KnownKindCall == wf_last.op = "execute_workflow" /\ wf_last.in_table

\* workflow.ainvoke raised in the last call
EngineFailed == wf_last.result.error_message = EngineError

\* C22: a call with a known workflow kind returns a WorkflowResult and raises
\* nothing; when the graph ran, success is true exactly when the error field
\* is unset at the end of the run and error_message is that final error field;
\* when the engine itself failed, the result is a failure with a message
C22_ResultReflectsError ==
    KnownKindCall =>
        /\ ~wf_last.raised
        /\ wf_last.result.request_id = wf_last.request.request_id
        /\ IF EngineFailed
           THEN /\ wf_last.result.success = FALSE
                /\ wf_last.result.result = EmptyMap
           ELSE /\ wf_last.result.success = (FinalError = "None")
                /\ wf_last.result.error_message = FinalError

\* a run in which two nodes set the error field and the result carries the
\* later one
C22_Witness ==
    /\ KnownKindCall
    /\ ~EngineFailed
    /\ wf_last.result.success = FALSE
    /\ \E k \in ErrorSetAt :
          /\ wf_last.trace[k].error # FinalError
          /\ wf_last.result.error_message = FinalError

(***************************************************************************)
(* Properties of the Analysis Agent's alert analysis                        *)
(***************************************************************************)
\* the last step was a process_message call with an alert envelope
AlertProcessed ==
    /\ analysis_last.op = "process_message"
    /\ analysis_last.message.message_type = "alert"

\* the call stored one result and returned its insight envelope
OneResultOneInsight ==
    LET result == analysis_history[Len(analysis_history)]
        response == analysis_last.response
    IN /\ analysis_history = Append(analysis_last.before, result)
       /\ response.sender = "analysis_agent"
       /\ response.recipient = "broadcast"
       /\ response.message_type = "insight"
       /\ response.content.analysis_result = Len(analysis_history)
       /\ response.content.response_message = _generate_analysis_response(result)
       /\ response.priority = analysis_last.message.priority

\* C23: a process_message call of the Analysis Agent with an alert envelope
\* either appends exactly one AnalysisResult to the history and returns one
\* insight envelope to "broadcast" that carries this result and its summary
\* with the priority of the alert envelope, or, when the analysis fails,
\* appends nothing and returns nothing; a well formed alert is analysed
C23_OneAnalysisPerAlert ==
    AlertProcessed =>
        /\ IF analysis_last.returned THEN OneResultOneInsight
           ELSE analysis_history = analysis_last.before
        /\ (analysis_last.message.content_is_dict
                /\ analysis_last.message.content.alert.is_dict)
              => analysis_last.returned

\* the agent's own loop analysed a critical alert after earlier analyses and
\* returned an insight of priority 3
C23_Witness ==
    /\ AlertProcessed
    /\ analysis_last.task = "_message_processor"
    /\ analysis_last.returned
    /\ analysis_last.before # <<>>
    /\ analysis_last.response.priority = 3
    /\ analysis_last.response.content.response_message.confidence_desc = "high"

\* the sum of the base value and the boosts of the signals that contributed to
\* the result, in tenths
SignalSum(result, before) ==
    5 + (IF "dependency issues" \in result.findings THEN 3 ELSE 0)
      + (IF "service is down" \in result.findings THEN 4 ELSE 0)
      + (IF "cache degraded" \in result.findings THEN 3 ELSE 0)
      + _analyze_historical_patterns(before, result.trigger_event,
            result.timestamp).confidence_boost

C28_OwnLoopsOnly ==
    [][analysis_history' # analysis_history
          => analysis_last'.task = "_message_processor"]_vars

(***************************************************************************)
(* Properties of the workflow executions in flight                          *)
(***************************************************************************)
\* the k-th event of an execution whose nodes run one after another
EventInOrder(nodes, k) ==
    <<IF k % 2 = 1 THEN "start" ELSE "return", nodes[(k + 1) \div 2]>>

SeenInput(r) ==
    [alert_data |-> runs[r].request.parameters.alert_data,
     responses |-> [c \in AgentCalls |->
         LET k == IF c = "first" THEN 1 ELSE 2
         IN IF k <= Len(runs[r].seen) THEN runs[r].seen[k] ELSE "none"],
     engine |-> "runs"]

\* the state of execution r had it run alone: its own initial state taken
\* through the nodes that have returned
AloneState(r) ==
    ainvoke(SubSeq(WorkflowNodes(runs[r].request.workflow_type), 1,
                runs[r].node - 1),
        Run(AgentState(EmptyMap, "None", "started", 0), <<>>),
        SeenInput(r)).state

\* C30: an execution starts from a state of its own with an empty results map
\* and no error; a step of one execution changes no other execution; and the
\* state and the WorkflowResult of an execution are those it has when it runs
\* alone
C30_ExecutionsIsolated ==
    /\ [](\A r \in 1..Len(runs) :
            /\ runs[r].state = AloneState(r)
            /\ runs[r].pc = "done" =>
                  /\ runs[r].result.result = AloneState(r).results
                  /\ runs[r].result.error_message = AloneState(r).error
                  /\ runs[r].result.success = (AloneState(r).error = "None")
                  /\ runs[r].result.request_id = runs[r].request.request_id)
    /\ [][/\ Cardinality({j \in 1..Len(runs) : runs'[j] # runs[j]}) <= 1
          /\ Len(runs') > Len(runs) =>
                runs'[Len(runs')].state =
                    AgentState(EmptyMap, "None", "started", 0)]_vars

\* the second execution began while the first was in flight and is done with
\* an error; the first is still inside a node, with results and no error
C30_Witness ==
    /\ Len(runs) = 2
    /\ runs[2].pc = "done" /\ ~runs[2].result.success
    /\ runs[1].pc = "in_node"
    /\ runs[1].state.error = "None"
    /\ runs[1].state.results # EmptyMap

(***************************************************************************)
(* Properties of the pure functions                                         *)
(***************************************************************************)
\* the status the static thresholds give a value: higher is better for
\* cache_hit_ratio, lower is better for the other metrics with thresholds
ThresholdStatus(metric_name, value) ==
    IF metric_name = "cache_hit_ratio"
    THEN IF value < 60 THEN "critical"
         ELSE IF value < 80 THEN "warning" ELSE "healthy"
    ELSE IF metric_name \in {"database_connections", "unprocessed_messages",
                             "pod_count"}
    THEN IF value > Thresholds(metric_name).critical THEN "critical"
         ELSE IF value > Thresholds(metric_name).warning THEN "warning"
         ELSE "healthy"
    ELSE "healthy"

\* C33: _evaluate_metric_health gives every value of a critical system metric
\* the status of its static thresholds, a value exactly at a threshold the
\* better of the two statuses, and an unknown metric name healthy
C33_StaticThresholds ==
    call_last.op = "_evaluate_metric_health" =>
        LET metric_name == call_last.args.metric_name
            value == call_last.args.value
        IN /\ call_last.result = ThresholdStatus(metric_name, value)
           /\ (metric_name \in ThresholdNames
                  /\ value = Thresholds(metric_name).critical)
                 => call_last.result = "warning"
           /\ (metric_name \in ThresholdNames
                  /\ value = Thresholds(metric_name).warning)
                 => call_last.result = "healthy"

\* database_connections exactly at its critical threshold is a warning
C33_Witness ==
    /\ call_last.op = "_evaluate_metric_health"
    /\ call_last.args.metric_name = "database_connections"
    /\ call_last.args.value = 95
    /\ call_last.result = "warning"

\* the services of the map that list the service as a dependency
Dependents(map, service_name) ==
    {s \in DOMAIN map : InList(map[s].depends_on, service_name)}

\* C34: _calculate_impact_level returns the impact level of the service's own
\* entry of the dependency graph when it has one, and otherwise "critical"
\* for more than 3 dependents, "high" for more than 1, "medium" for exactly 1
\* and "low" for none
C34_ImpactLevel ==
    call_last.op = "_calculate_impact_level" =>
        LET map == call_last.args.dependency_map
            service_name == call_last.args.service_name
            n == Cardinality(Dependents(map, service_name))
        IN call_last.result =
              IF service_name \in DOMAIN map THEN map[service_name].impact_level
              ELSE IF n > 3 THEN "critical"
              ELSE IF n > 1 THEN "high"
              ELSE IF n = 1 THEN "medium"
              ELSE "low"

\* banking_mysql in the map of initialize_service_dependencies: no entry of
\* its own, exactly 3 dependents, "high"
C34_Witness ==
    /\ call_last.op = "_calculate_impact_level"
    /\ call_last.args.dependency_map = initialize_service_dependencies
    /\ call_last.args.service_name = "banking_mysql"
    /\ Cardinality(Dependents(call_last.args.dependency_map, "banking_mysql")) = 3
    /\ call_last.result = "high"

\* C31: a dependency is recorded as unhealthy exactly when its health query
\* fails (another status than success, or an exception) or gives anything but
\* the sample 1.0, no sample included; the finding and the recommendation
\* list exactly the unhealthy dependencies
C31_UnhealthyExactly ==
    call_last.op = "_check_dependency_health" =>
        /\ \A i \in 1..Len(call_last.args.dependencies) :
              InList(call_last.result.unhealthy_deps,
                     call_last.args.dependencies[i])
                 <=> call_last.args.outcomes[i] # "up_1"
        /\ call_last.result.finding = call_last.result.unhealthy_deps
        /\ call_last.result.recommendation = call_last.result.unhealthy_deps

\* the error field before the k-th node invocation of the last call
ErrorBefore(k) == IF k = 1 THEN "None" ELSE wf_last.trace[k - 1].error

\* the nodes of the last call that failed: every node that succeeds writes an
\* entry of its own into the results map, a node that fails writes none
FailingNodes == {k \in 1..Len(wf_last.trace) : wf_last.trace[k].wrote = {}}

\* C38: when nodes of one execution fail, each failing node overwrites the
\* error field, so error_message is the message of the last failing node; a
\* node that succeeds after a failure leaves the error as it is
C38_LastErrorWins ==
    (KnownKindCall /\ ~EngineFailed) =>
        /\ \A k \in 1..Len(wf_last.trace) :
              IF k \in FailingNodes
              THEN wf_last.trace[k].error \notin {"None", ErrorBefore(k)}
              ELSE wf_last.trace[k].error = ErrorBefore(k)
        /\ \A k \in FailingNodes :
              (\A j \in FailingNodes : j <= k)
                 => wf_last.result.error_message = wf_last.trace[k].error
        /\ FailingNodes # {} => ~wf_last.result.success

\* two nodes failed with different messages, a later node succeeded and wrote
\* a result, and the result carries the message of the second failure
C38_Witness ==
    /\ KnownKindCall
    /\ \E k1 \in FailingNodes, k2 \in FailingNodes, j \in 1..Len(wf_last.trace) :
          /\ k1 < k2 /\ k2 < j
          /\ FailingNodes = {k1, k2}
          /\ wf_last.trace[j].wrote # {}
          /\ wf_last.trace[k1].error # wf_last.trace[k2].error
          /\ wf_last.result.error_message = wf_last.trace[k2].error

(***************************************************************************)
(* Properties of the active-alert set beyond the cooldown window           *)
(***************************************************************************)
\* C35: in every reachable state the active-alert set holds at most one
\* unresolved alert per (service, metric) pair, also when the pair stays
\* warning/critical for longer than the cooldown.
C35_OneActivePerPair ==
    \A r1, r2 \in ActiveRefs :
        (/\ ~alert_objs[r1].resolved
         /\ ~alert_objs[r2].resolved
         /\ SamePair(alert_objs[r1], alert_objs[r2].service_name,
                     alert_objs[r2].details.metric_name)) => r1 = r2

(***************************************************************************)
(* Properties of repeated registration                                     *)
(***************************************************************************)
\* the number of entries of a list of envelopes that carry this id
Copies(list, id) == Cardinality({i \in 1..Len(list) : list[i].id = id})

\* C39: register_agent is idempotent with respect to routing: however often
\* the sender was registered (or unregistered and registered again), an
\* envelope it sends is recorded in the hub's history at most once and is
\* put into every inbox at most once.
C39_RegisterIdempotent ==
    bus_last.op = "send" =>
        /\ Copies(message_history, bus_last.message.id) <= 1
        /\ \A a \in BusAgents :
              /\ bus_last.delivered[a] <= 1
              /\ Copies(message_queue[a], bus_last.message.id) <= 1

(***************************************************************************)
(* Properties of the inbox of an agent                                     *)
(***************************************************************************)
\* the envelope with this id is in the inbox of the agent
InInbox(id) ==
    \E i \in 1..Len(message_queue[LoopAgent]) :
        message_queue[LoopAgent][i].id = id

\* the positions of the log where process_message was invoked with it
Invocations(id) ==
    {k \in 1..Len(agent_log) : agent_log[k] = LogEntry("invoke", id)}

\* the envelope is in the inbox, or a loop of the agent holds it inside
\* process_message, or its process_message call is over
Accounted(id) ==
    Cardinality({j \in 1..Len(message_queue[LoopAgent]) :
                    message_queue[LoopAgent][j].id = id})
      + Cardinality(Invocations(id)) = 1

\* every envelope received so far is either still in the inbox or was passed
\* to process_message of this agent once, by one of its own loops; an
\* envelope never received was never processed
ProcessedAtMostOnce ==
    \A id \in 1..MaxArrivals :
        /\ id < next_message => Accounted(id)
        /\ id >= next_message => ~InInbox(id) /\ Invocations(id) = {}
        /\ Cardinality({t \in 1..Len(tasks) : tasks[t].message.id = id}) <= 1
        /\ \A t \in 1..Len(tasks) :
              tasks[t].message.id = id =>
                 /\ tasks[t].kind = "_message_processor"
                 /\ tasks[t].message.recipient = LoopAgent

\* C37: every envelope put into the inbox of a running agent is eventually
\* dequeued and passed to that agent's process_message, unless the agent is
\* stopped, and exactly once: it is never processed twice and never by
\* another agent.
C37_DeliveredOnce ==
    /\ []ProcessedAtMostOnce
    /\ \A id \in 1..MaxArrivals :
          (InInbox(id) /\ is_running)
              ~> (Invocations(id) # {} \/ ~is_running)

\* C37 witness: two envelopes were received by a running agent, each was
\* passed to process_message once and both calls are over.
C37_Witness ==
    /\ is_running
    /\ message_queue[LoopAgent] = <<>>
    /\ \A id \in 1..MaxArrivals :
          /\ Cardinality(Invocations(id)) = 1
          /\ \E k \in 1..Len(agent_log) : agent_log[k] = LogEntry("complete", id)

(***************************************************************************)
(* Properties of the traffic between the agents                            *)
(***************************************************************************)
\* the envelopes sent in answer to the envelope with this id
FollowUps(id) == {k \in 1..Len(traffic.sent) : traffic.sent[k].cause = id}

\* every envelope sent in answer to another answers an alert with an insight
\* broadcast or a status envelope with a response, the alert or status
\* envelope came from the Health Agent's background task, and no envelope is
\* answered twice: a chain of follow-ups has one link
BoundedFollowUps ==
    \A k \in 1..Len(traffic.sent) :
        LET e == traffic.sent[k]
        IN /\ Cardinality(FollowUps(e.id)) <= 1
           /\ e.message_type \in {"insight", "response"} => FollowUps(e.id) = {}
           /\ e.cause # 0 =>
                 /\ traffic.sent[e.cause].cause = 0
                 /\ e.message_type =
                       IF traffic.sent[e.cause].message_type = "alert"
                       THEN "insight" ELSE "response"

InboxesEmpty == \A a \in TrafficAgents : traffic.inbox[a] = <<>>

\* C36: the traffic between the Health Agent and the Analysis Agent
\* quiesces: an alert or a resolution envelope has a bounded chain of
\* follow-ups (the insight broadcast, the status response), no agent answers
\* an insight or a response, and once the Health Agent sends no more every
\* inbox is eventually empty and stays empty while the loops go on.
C36_TrafficQuiesces ==
    /\ []BoundedFollowUps
    /\ <>[]InboxesEmpty
    /\ \A a \in TrafficAgents : []<>(traffic.idle[a])

\* C36 witness: the Health Agent has sent all its envelopes, an insight and
\* a status response reached the Health Agent and were processed without an
\* answer, and both loops are idle on empty inboxes.
C36_Witness ==
    /\ traffic.emits = MaxEmits
    /\ InboxesEmpty
    /\ \A a \in TrafficAgents : traffic.idle[a]
    /\ \E i, j \in 1..Len(traffic.sent) :
          /\ traffic.sent[i].message_type = "insight"
          /\ traffic.sent[j].message_type = "response"
          /\ traffic.sent[j].recipient = "health_agent"

(***************************************************************************)
(* Properties of the correlation cache                                     *)
(***************************************************************************)
\* the samples of both metrics have a coefficient whose strength is above
\* the threshold
StronglyCorrelated(metric1, metric2) ==
    /\ Len(correlation.samples[metric1]) > 1
    /\ Len(correlation.samples[metric2]) > 1
    /\ float_gt(float_abs(_calculate_correlation_coefficient(
                    correlation.samples[metric1], correlation.samples[metric2])),
                correlation_threshold)

\* the cache has the pair under either of its metrics
Cached(metric1, metric2) ==
    \/ \E k \in 1..Len(correlation.cache[metric1]) :
          correlation.cache[metric1][k].metric2 = metric2
    \/ \E k \in 1..Len(correlation.cache[metric2]) :
          correlation.cache[metric2][k].metric2 = metric1

\* C32: when the samples of two tracked metrics have a coefficient whose
\* absolute value is above the threshold, the background cycle eventually
\* stores the pair in the correlation cache, and no pair at or below the
\* threshold is ever in the cache.
C32_StrongPairsCached ==
    /\ \A metric1, metric2 \in KeyMetricNames :
          (metric1 # metric2 /\ StronglyCorrelated(metric1, metric2))
              ~> Cached(metric1, metric2)
    /\ [](\A name \in KeyMetricNames :
             \A k \in 1..Len(correlation.cache[name]) :
                float_gt(correlation.cache[name][k].strength,
                         correlation_threshold))

(***************************************************************************)
(* Properties of the lifecycle of the agent system                         *)
(***************************************************************************)
LiveMonitoringLoops == {t \in 1..Len(system.loops) : system.loops[t].pc # "done"}

\* initialize() on an initialized system changes nothing of the system and
\* creates no task
InitializeNoOp ==
    (system.is_initialized /\ system'.calls = system.calls + 1
        /\ system'.lifecycle \in {"initialize", "initialize_noop"})
    => /\ system'.lifecycle = "initialize_noop"
       /\ system' = [system EXCEPT !.calls = system'.calls,
                                   !.lifecycle = system'.lifecycle]

\* after a shutdown() has returned and before the next initialize(), the
\* flags are cleared, the task list is empty, no monitoring loop is alive
\* and no agent is running
StoppedAfterShutdown ==
    (system.lifecycle \in {"shutdown", "shutdown_noop"} /\ system.call = "idle")
    => /\ ~system.is_initialized
       /\ ~system.monitoring_active
       /\ system.background_tasks = <<>>
       /\ LiveMonitoringLoops = {}
       /\ ~system.executor_running
       /\ \A a \in SystemAgents : ~system.agents_running[a]

\* a request on a system that is not initialized gets an error value and
\* runs no workflow
GuardedRequests ==
    (system.last.op # "none" /\ ~system.last.initialized)
    => system.last.result = "error" /\ ~system.last.ran_workflow

\* C40: initialize() on an initialized system is a no-op that starts no
\* second monitoring task; after a sequence of initialize() and shutdown()
\* calls that ends in shutdown() the flags are false, the task list is
\* empty and every agent is stopped; at most one proactive monitoring loop
\* exists at any time; and process_chat_query and process_alert on a system
\* that is not initialized return an error value without running a workflow.
C40_LifecycleGuards ==
    /\ [](StoppedAfterShutdown /\ GuardedRequests
            /\ Cardinality(LiveMonitoringLoops) <= 1)
    /\ [][InitializeNoOp]_vars

\* C40 witness: initialize, a second initialize that did nothing, a shutdown
\* that cancelled the running monitoring loop, and a request refused after
\* it.
C40_Witness ==
    /\ system.calls >= 3
    /\ system.lifecycle = "shutdown"
    /\ Len(system.loops) = 1
    /\ system.loops[1] = MonitoringTask("done", TRUE)
    /\ system.last = Request("process_alert", FALSE, "error", FALSE)

====
